---- MODULE Spec2Model ----
(***************************************************************************)
(* Stock bookkeeping of the shop back office: the variant resolver, the    *)
(* stock transition engine (services/stockManagementService.js) and the    *)
(* order endpoints that drive it (routes/orders-enhanced.js, kept in       *)
(* src/routes/blacklist-phones.js, and routes/customer-orders.js); the     *)
(* catalog: option groups, options and variants (routes/productOptions.js, *)
(* routes/productVariants.js) and variant generation                       *)
(* (services/hierarchicalStockService.js, kept in src/prisma/seed.js).     *)
(***************************************************************************)
EXTENDS Integers, Sequences, FiniteSets, TLC

VARIABLES
  quantity,   \* Product.quantity of every product row
  variants,   \* product_variants rows, in findMany order
  options,    \* ids of the product_options rows that exist
  orders,     \* orders rows (with their order_items), keyed by order id
  last,       \* the request handled last and the HTTP status it was answered with
  snap,       \* stock counters read before the last write of state DELIVERING
  reqs,       \* requests in flight, each at one of its await points
  rsel,       \* resolver harness: the selected option ids
  rout,       \* resolver harness: the variant id returned
  groups      \* product_option_groups rows with their product_options, in level order

vars == <<quantity, variants, options, orders, last, snap, reqs, rsel, rout, groups>>

----------------------------------------------------------------------------
(* Bounds of the model *)

MaxQty == 2       \* order item quantities are 1 or MaxQty
MaxStock == 1     \* initial stock counters range over 0..MaxStock
StockCap == 2     \* requests that would raise a counter above StockCap are left out
Overdraft == 1    \* requests that would lower a counter below -Overdraft are left out

----------------------------------------------------------------------------
(* Catalog *)

Products == {"p1"}
HasOptions == [p \in Products |-> TRUE]
NoVariant == "null"
NoDriver == "null"
NoGroups == <<>>   \* the option groups play no part in order handling
Drivers == {"d1"}
OrderIds == {"SP1"}
States == {"PLACED", "DELIVERING", "RETURNED", "COMPLETED"}
AllOptions == {1, 2}

\* product_variants rows of p1, in findMany order: v2 = {1}, v1 = {1,2}
Catalog(s) ==
  << [id |-> "v2", productId |-> "p1", options |-> {1},    stock |-> s, isActive |-> TRUE],
     [id |-> "v1", productId |-> "p1", options |-> {1, 2}, stock |-> s, isActive |-> TRUE] >>

\* the counters stay in the range the model explores
InRange(q, vs) ==
  /\ \A p \in DOMAIN q : q[p] >= 0 - Overdraft /\ q[p] <= StockCap
  /\ \A i \in 1..Len(vs) : vs[i].stock >= 0 - Overdraft /\ vs[i].stock <= StockCap

----------------------------------------------------------------------------
(* StockManagementService.resolveVariantId *)

VariantsOf(vs, productId) == SelectSeq(vs, LAMBDA v : v.productId = productId)

\* an exact test that compares the sizes only
IsExactBySize(v, desired) == Cardinality(v.options) = Cardinality(desired)

\* first loop: voSet.size === desired.size and every desired id is in voSet
IsExact(v, desired) ==
  /\ Cardinality(v.options) = Cardinality(desired)
  /\ \A id \in desired : id \in v.options

\* a subset test that accepts a variant as soon as one of its options is selected
IsSubsetOverlap(v, desired) == \E id \in v.options : id \in desired

\* second loop's test: every id of voSet is in desired
IsSubset(v, desired) == \A id \in v.options : id \in desired

RECURSIVE ExactLoop(_, _, _)
ExactLoop(pv, desired, i) ==
  IF i > Len(pv) THEN NoVariant
  ELSE IF IsExact(pv[i], desired) THEN pv[i].id
  ELSE ExactLoop(pv, desired, i + 1)

\* a second loop that lets a later variant of the same size replace the best one
RECURSIVE SubsetLoopLast(_, _, _, _, _)
SubsetLoopLast(pv, desired, i, best, bestSize) ==
  IF i > Len(pv) THEN best
  ELSE IF IsSubset(pv[i], desired) /\ Cardinality(pv[i].options) >= bestSize
       THEN SubsetLoopLast(pv, desired, i + 1, pv[i].id, Cardinality(pv[i].options))
       ELSE SubsetLoopLast(pv, desired, i + 1, best, bestSize)

RECURSIVE SubsetLoop(_, _, _, _, _)
SubsetLoop(pv, desired, i, best, bestSize) ==
  IF i > Len(pv) THEN best
  ELSE IF IsSubset(pv[i], desired) /\ Cardinality(pv[i].options) > bestSize
       THEN SubsetLoop(pv, desired, i + 1, pv[i].id, Cardinality(pv[i].options))
       ELSE SubsetLoop(pv, desired, i + 1, best, bestSize)

resolveVariantId(vs, productId, optionIds) ==
  IF optionIds = {} THEN NoVariant
  ELSE LET pv == VariantsOf(vs, productId) IN
       IF Len(pv) = 0 THEN NoVariant
       ELSE LET e == ExactLoop(pv, optionIds, 1) IN
            IF e # NoVariant THEN e
            ELSE SubsetLoop(pv, optionIds, 1, NoVariant, -1)

----------------------------------------------------------------------------
(* StockManagementService: per-item and per-order stock operations.         *)
(* A stock database db is [quantity, variants]; every operation returns     *)
(* [ok, quantity, variants], ok = FALSE when the code throws.  The service  *)
(* writes through the global client, so each write is committed at once.    *)

DB(q, vs) == [quantity |-> q, variants |-> vs]
Ok(db) == [ok |-> TRUE, quantity |-> db.quantity, variants |-> db.variants]
Thrown(db) == [ok |-> FALSE, quantity |-> db.quantity, variants |-> db.variants]

\* prisma.productVariant.findUnique({ where: { id } }): index of the row, 0 when absent
RECURSIVE FindFrom(_, _, _)
FindFrom(vs, variantId, i) ==
  IF i > Len(vs) THEN 0
  ELSE IF vs[i].id = variantId THEN i
  ELSE FindFrom(vs, variantId, i + 1)

FindVariant(vs, variantId) == FindFrom(vs, variantId, 1)

AddStock(vs, i, delta) == [vs EXCEPT ![i].stock = @ + delta]

deductVariantStock(db, variantId, qty) ==
  LET i == FindVariant(db.variants, variantId) IN
  IF i = 0 THEN Thrown(db)
  ELSE IF db.variants[i].stock < qty THEN Thrown(db)
  ELSE Ok(DB(db.quantity, AddStock(db.variants, i, 0 - qty)))

restoreVariantStock(db, variantId, qty) ==
  LET i == FindVariant(db.variants, variantId) IN
  IF i = 0 THEN Thrown(db)
  ELSE Ok(DB(db.quantity, AddStock(db.variants, i, qty)))

deductProductStock(db, productId, qty) ==
  IF productId \notin DOMAIN db.quantity THEN Thrown(db)
  ELSE IF db.quantity[productId] < qty THEN Thrown(db)
  ELSE Ok(DB([db.quantity EXCEPT ![productId] = @ - qty], db.variants))

restoreProductStock(db, productId, qty) ==
  IF productId \notin DOMAIN db.quantity THEN Thrown(db)
  ELSE Ok(DB([db.quantity EXCEPT ![productId] = @ + qty], db.variants))

\* a resolution that re-runs the matching and ignores the stored variantId
ItemVariantIdRematch(vs, item) ==
  LET od == item.optionDetails IN
  IF od.kind # "null" /\ od.selections # {}
  THEN resolveVariantId(vs, item.productId, od.selections)
  ELSE NoVariant

\* optionDetails?.variantId, else the resolver on the raw selections
ItemVariantId(vs, item) ==
  LET od == item.optionDetails
      stored == IF od.kind = "object" THEN od.variantId ELSE NoVariant
  IN IF stored # NoVariant THEN stored
     ELSE IF od.kind # "null" /\ od.selections # {}
          THEN resolveVariantId(vs, item.productId, od.selections)
          ELSE NoVariant

deductStockForItem(db, item) ==
  LET variantId == ItemVariantId(db.variants, item) IN
  IF variantId # NoVariant
  THEN deductVariantStock(db, variantId, item.quantity)
  ELSE deductProductStock(db, item.productId, item.quantity)

\* a restore that credits Product.quantity whatever the item resolves to
restoreStockForItemToProduct(db, item) ==
  restoreProductStock(db, item.productId, item.quantity)

restoreStockForItem(db, item) ==
  LET variantId == ItemVariantId(db.variants, item) IN
  IF variantId # NoVariant
  THEN restoreVariantStock(db, variantId, item.quantity)
  ELSE restoreProductStock(db, item.productId, item.quantity)

\* for (const item of order.orderItems) await this.deductStockForItem(item)
RECURSIVE DeductLoop(_, _, _)
DeductLoop(db, items, i) ==
  IF i > Len(items) THEN Ok(db)
  ELSE LET r == deductStockForItem(db, items[i]) IN
       IF r.ok THEN DeductLoop(DB(r.quantity, r.variants), items, i + 1) ELSE r

deductStockForOrder(db, items) == DeductLoop(db, items, 1)

RECURSIVE RestoreLoop(_, _, _)
RestoreLoop(db, items, i) ==
  IF i > Len(items) THEN Ok(db)
  ELSE LET r == restoreStockForItem(db, items[i]) IN
       IF r.ok THEN RestoreLoop(DB(r.quantity, r.variants), items, i + 1) ELSE r

restoreStockForOrder(db, items) == RestoreLoop(db, items, 1)

\* validateStockForOrder: one result per item, each against the stock as stored
ItemIsValid(db, item) ==
  LET variantId == ItemVariantId(db.variants, item) IN
  IF variantId # NoVariant
  THEN LET i == FindVariant(db.variants, variantId)
           available == IF i = 0 THEN 0 ELSE db.variants[i].stock
       IN available >= item.quantity
  ELSE db.quantity[item.productId] >= item.quantity

validateStockForOrder(db, items) ==
  \A i \in 1..Len(items) : ItemIsValid(db, items[i])

----------------------------------------------------------------------------
(* Request inputs *)

DriverInputs == {NoDriver, "d1", "dX"}       \* "dX" is no row of drivers
BodyDrivers == {"d1", "dX"}                  \* req.body.driverId of POST / and PUT /:id
Selections == {{}, {1, 2}}                   \* flattened selectedOptions ids
Quantities == {1, MaxQty}

\* one entry of req.body.products / req.body.items
ProductInputs ==
  {[productId |-> "p1", quantity |-> q, sel |-> s] : q \in Quantities, s \in Selections}

\* one line, or two lines of one unit each of which the first asks for a combination
ProductLists ==
  {<<a>> : a \in ProductInputs}
    \cup {<<a, b>> : a \in {x \in ProductInputs : x.quantity = 1 /\ x.sel # {}},
                      b \in {x \in ProductInputs : x.quantity = 1}}

NullDetails == [kind |-> "null", variantId |-> NoVariant, selections |-> {}]

\* optionDetails.length > 0 ? { variantId, selections: optionDetails } : null
LinkedDetails(variantId, sel) ==
  IF sel # {} THEN [kind |-> "object", variantId |-> variantId, selections |-> sel]
  ELSE NullDetails

\* item.optionDetails || null: the raw array of groups
RawDetails(sel) ==
  IF sel # {} THEN [kind |-> "array", variantId |-> NoVariant, selections |-> sel]
  ELSE NullDetails

\* an order_items row; productVariantId is the nullable column no handler writes
OrderItem(productId, qty, details) ==
  [productId |-> productId, quantity |-> qty, optionDetails |-> details,
   productVariantId |-> NoVariant]

\* a stock branch that deducts on every write of DELIVERING
DeductsOnEveryWrite(from, to) == to = "DELIVERING"

\* existingOrder.state -> state is an edge into DELIVERING / into RETURNED
Deducts(from, to) == to = "DELIVERING" /\ from # "DELIVERING"
Restores(from, to) == to = "RETURNED" /\ from # "RETURNED"

\* what the request answered: the kind of write it made and its HTTP status
Edge(from, to) ==
  IF Deducts(from, to) THEN "deduct"
  ELSE IF Restores(from, to) THEN "restore"
  ELSE IF from = to THEN "repeat"
  ELSE "plain"

Response(kind, from, to, status) ==
  [edge |-> IF status \in {400, 404} THEN "none"
            ELSE IF kind = "write" THEN Edge(from, to) ELSE kind,
   to |-> IF status \in {400, 404} \/ kind # "write" THEN "none" ELSE to,
   status |-> status]

\* total quantity the items draw from variant variantId / from product productId
RECURSIVE VariantDemand(_, _, _, _)
VariantDemand(vs, items, variantId, i) ==
  IF i > Len(items) THEN 0
  ELSE (IF ItemVariantId(vs, items[i]) = variantId THEN items[i].quantity ELSE 0)
       + VariantDemand(vs, items, variantId, i + 1)

RECURSIVE ProductDemand(_, _, _, _)
ProductDemand(vs, items, productId, i) ==
  IF i > Len(items) THEN 0
  ELSE (IF ItemVariantId(vs, items[i]) = NoVariant /\ items[i].productId = productId
        THEN items[i].quantity ELSE 0)
       + ProductDemand(vs, items, productId, i + 1)

\* every item's bucket exists and holds what the items draw from it in total
Sufficient(db, items) ==
  /\ \A i \in 1..Len(items) :
        LET variantId == ItemVariantId(db.variants, items[i]) IN
        variantId # NoVariant => FindVariant(db.variants, variantId) # 0
  /\ \A j \in 1..Len(db.variants) :
        VariantDemand(db.variants, items, db.variants[j].id, 1) <= db.variants[j].stock
  /\ \A p \in DOMAIN db.quantity :
        ProductDemand(db.variants, items, p, 1) <= db.quantity[p]

\* snap: the counters and the items as they were when the last request entered
\* DELIVERING (phase "out"), kept while the next request takes the same items into
\* RETURNED (phase "back") or writes DELIVERING again (phase "again"), cleared by
\* any other request
NoSnap == [id |-> "none", phase |-> "none", sufficient |-> FALSE, items |-> <<>>,
           quantity |-> <<>>, variants |-> <<>>]

\* the stock branch shared by PUT /:id/state, PUT /:id/driver and PUT /:id
ApplyStock(db, from, to, items) ==
  IF Deducts(from, to) THEN deductStockForOrder(db, items)
  ELSE IF Restores(from, to) THEN restoreStockForOrder(db, items)
  ELSE Ok(db)

SnapFor(id, from, to, items) ==
  IF Deducts(from, to)
  THEN [id |-> id, phase |-> "out",
        sufficient |-> Sufficient(DB(quantity, variants), items), items |-> items,
        quantity |-> quantity, variants |-> variants]
  ELSE IF Restores(from, to) /\ snap.id = id /\ snap.phase = "out" /\ snap.items = items
  THEN [snap EXCEPT !.phase = "back"]
  ELSE IF from = "DELIVERING" /\ to = "DELIVERING" /\ snap.id = id /\ snap.phase = "out"
  THEN [snap EXCEPT !.phase = "again"]
  ELSE NoSnap

----------------------------------------------------------------------------
(* routes/orders-enhanced.js *)

\* PUT /api/orders/:id/state
PutOrderState(id, state) ==
  /\ UNCHANGED <<options, reqs, rsel, rout, groups>>
  /\ IF id \notin DOMAIN orders
     THEN /\ last' = Response("write", "none", state, 404)
          /\ snap' = NoSnap
          /\ UNCHANGED <<quantity, variants, orders>>
     ELSE LET existingOrder == orders[id]
              r == ApplyStock(DB(quantity, variants), existingOrder.state, state,
                              existingOrder.items)
          IN /\ orders' = [orders EXCEPT ![id].state = state]
             /\ quantity' = r.quantity
             /\ variants' = r.variants
             /\ InRange(r.quantity, r.variants)
             /\ snap' = SnapFor(id, existingOrder.state, state, existingOrder.items)
             /\ last' = Response("write", existingOrder.state, state,
                                 IF r.ok THEN 200 ELSE 500)

\* PUT /api/orders/:id/driver
PutOrderDriver(id, driverId) ==
  /\ UNCHANGED <<options, reqs, rsel, rout, groups>>
  /\ IF id \notin DOMAIN orders
     THEN /\ last' = Response("write", "none", "none", 404)
          /\ snap' = NoSnap
          /\ UNCHANGED <<quantity, variants, orders>>
     ELSE LET existingOrder == orders[id]
              willBeAssigned == driverId # NoDriver
              currentState == existingOrder.state
              newState == IF willBeAssigned THEN "DELIVERING" ELSE "PLACED"
              needsStockValidation == newState = "DELIVERING" /\ currentState # "DELIVERING"
              r == ApplyStock(DB(quantity, variants), currentState, newState,
                              existingOrder.items)
          IN IF willBeAssigned /\ driverId \notin Drivers
             THEN /\ last' = Response("write", currentState, newState, 400)
                  /\ snap' = NoSnap
                  /\ UNCHANGED <<quantity, variants, orders>>
             ELSE IF needsStockValidation
                     /\ ~validateStockForOrder(DB(quantity, variants), existingOrder.items)
             THEN /\ last' = Response("write", currentState, newState, 400)
                  /\ snap' = NoSnap
                  /\ UNCHANGED <<quantity, variants, orders>>
             ELSE /\ orders' = [orders EXCEPT ![id].state = newState]
                  /\ quantity' = r.quantity
                  /\ variants' = r.variants
                  /\ InRange(r.quantity, r.variants)
                  /\ snap' = SnapFor(id, currentState, newState, existingOrder.items)
                  /\ last' = Response("write", currentState, newState,
                                      IF r.ok THEN 200 ELSE 500)

\* PUT /:id's own resolveVariantId: exact match only, every variant of the product
UpdateResolveVariantId(vs, productId, optionIds) ==
  IF optionIds = {} THEN NoVariant
  ELSE ExactLoop(VariantsOf(vs, productId), optionIds, 1)

UpdateItems(vs, products) ==
  [i \in 1..Len(products) |->
     OrderItem(products[i].productId, products[i].quantity,
               LinkedDetails(UpdateResolveVariantId(vs, products[i].productId,
                                                    products[i].sel),
                             products[i].sel))]

\* PUT /api/orders/:id
PutOrder(id, state, driverId, products) ==
  /\ UNCHANGED <<options, reqs, rsel, rout, groups>>
  /\ IF id \notin DOMAIN orders
     THEN /\ last' = Response("write", "none", state, 404)
          /\ snap' = NoSnap
          /\ UNCHANGED <<quantity, variants, orders>>
     ELSE LET existingOrder == orders[id]
              newItems == UpdateItems(variants, products)
              r == ApplyStock(DB(quantity, variants), existingOrder.state, state, newItems)
          IN IF \/ driverId # NoDriver /\ driverId \notin Drivers
                \/ \E i \in 1..Len(products) : products[i].productId \notin DOMAIN quantity
             THEN /\ last' = Response("write", existingOrder.state, state, 400)
                  /\ snap' = NoSnap
                  /\ UNCHANGED <<quantity, variants, orders>>
             ELSE /\ orders' = [orders EXCEPT ![id].state = state,
                                              ![id].items = newItems]
                  /\ quantity' = r.quantity
                  /\ variants' = r.variants
                  /\ InRange(r.quantity, r.variants)
                  /\ snap' = SnapFor(id, existingOrder.state, state, newItems)
                  /\ last' = Response("write", existingOrder.state, state,
                                      IF r.ok THEN 200 ELSE 500)

\* DELETE /api/orders/:id
DeleteOrder(id) ==
  /\ UNCHANGED <<options, reqs, rsel, rout, groups>>
  /\ snap' = NoSnap
  /\ IF id \notin DOMAIN orders
     THEN /\ last' = Response("delete", "none", "none", 404)
          /\ UNCHANGED <<quantity, variants, orders>>
     ELSE LET existingOrder == orders[id]
              r == IF existingOrder.state = "DELIVERING"
                   THEN restoreStockForOrder(DB(quantity, variants), existingOrder.items)
                   ELSE Ok(DB(quantity, variants))
          IN /\ quantity' = r.quantity
             /\ variants' = r.variants
             /\ InRange(r.quantity, r.variants)
             /\ orders' = IF r.ok THEN [o \in DOMAIN orders \ {id} |-> orders[o]]
                          ELSE orders
             /\ last' = Response("delete", existingOrder.state, "none",
                                 IF r.ok THEN 200 ELSE 500)

\* POST /api/orders prefetches only the active variants of products with options
ActiveVariantsOf(vs, productId) ==
  SelectSeq(vs, LAMBDA v : v.productId = productId /\ v.isActive)

\* POST /api/orders: the matched variant of the stock check and of the item insert
CreateResolveVariantId(vs, productId, optionIds) ==
  IF optionIds = {} \/ ~HasOptions[productId] THEN NoVariant
  ELSE LET pv == ActiveVariantsOf(vs, productId) IN
       IF Len(pv) = 0 THEN NoVariant
       ELSE LET e == ExactLoop(pv, optionIds, 1) IN
            IF e # NoVariant THEN e
            ELSE SubsetLoop(pv, optionIds, 1, NoVariant, -1)

\* POST /api/orders: "Now validate stock for all products"
CreateStockOk(db, product) ==
  IF HasOptions[product.productId] /\ product.sel # {}
  THEN LET matched == CreateResolveVariantId(db.variants, product.productId, product.sel) IN
       matched = NoVariant
         \/ db.variants[FindVariant(db.variants, matched)].stock >= product.quantity
  ELSE db.quantity[product.productId] >= product.quantity

CreateItems(vs, products) ==
  [i \in 1..Len(products) |->
     OrderItem(products[i].productId, products[i].quantity,
               LinkedDetails(CreateResolveVariantId(vs, products[i].productId,
                                                    products[i].sel),
                             products[i].sel))]

MaxRetries == 3

\* createOrderWithRetry: ids[k] is the id generated at attempt k; the first one
\* that is no existing order's id is inserted, 0 when every attempt collides
RECURSIVE FirstFree(_, _)
FirstFree(ids, k) ==
  IF k > MaxRetries THEN 0
  ELSE IF ids[k] \notin DOMAIN orders THEN k
  ELSE FirstFree(ids, k + 1)

InsertOrder(id, order) == [o \in DOMAIN orders \cup {id} |-> IF o = id THEN order ELSE orders[o]]

\* POST /api/orders
CreateOrder(ids, state, driverId, products) ==
  /\ UNCHANGED <<quantity, variants, options, reqs, rsel, rout, groups>>
  /\ snap' = NoSnap
  /\ LET k == FirstFree(ids, 1) IN
     IF \/ driverId # NoDriver /\ driverId \notin Drivers
        \/ \E i \in 1..Len(products) : products[i].productId \notin DOMAIN quantity
        \/ \E i \in 1..Len(products) : ~CreateStockOk(DB(quantity, variants), products[i])
     THEN /\ last' = Response("create", "none", state, 400)
          /\ UNCHANGED orders
     ELSE IF k = 0
     THEN /\ last' = Response("create", "none", state, 500)
          /\ UNCHANGED orders
     ELSE /\ orders' = InsertOrder(ids[k],
                         [state |-> state, orderSource |-> "ADMIN",
                          items |-> CreateItems(variants, products)])
          /\ last' = Response("create", "none", state, 201)

----------------------------------------------------------------------------
(* routes/customer-orders.js *)

\* POST /api/customer-orders resolves inside the transaction, over every variant
CustomerResolveVariantId(vs, productId, optionIds) ==
  IF optionIds = {} THEN NoVariant
  ELSE LET pv == VariantsOf(vs, productId) IN
       IF Len(pv) = 0 THEN NoVariant
       ELSE LET e == ExactLoop(pv, optionIds, 1) IN
            IF e # NoVariant THEN e
            ELSE SubsetLoop(pv, optionIds, 1, NoVariant, -1)

CustomerItems(vs, items) ==
  [i \in 1..Len(items) |->
     OrderItem(items[i].productId, items[i].quantity,
               LinkedDetails(CustomerResolveVariantId(vs, items[i].productId, items[i].sel),
                             items[i].sel))]

\* POST /api/customer-orders
CreateCustomerOrder(ids, items) ==
  /\ UNCHANGED <<quantity, variants, options, reqs, rsel, rout, groups>>
  /\ snap' = NoSnap
  /\ LET k == FirstFree(ids, 1) IN
     IF \E i \in 1..Len(items) : items[i].productId \notin DOMAIN quantity
     THEN /\ last' = Response("create", "none", "PLACED", 400)
          /\ UNCHANGED orders
     ELSE IF k = 0
     THEN /\ last' = Response("create", "none", "PLACED", 500)
          /\ UNCHANGED orders
     ELSE /\ orders' = InsertOrder(ids[k],
                         [state |-> "PLACED", orderSource |-> "CUSTOMER",
                          items |-> CustomerItems(variants, items)])
          /\ last' = Response("create", "none", "PLACED", 201)

\* tx.product.update({ data: { quantity: { increment / decrement } } }) per item
RECURSIVE AdjustQuantity(_, _, _, _)
AdjustQuantity(q, items, i, sign) ==
  IF i > Len(items) THEN q
  ELSE AdjustQuantity([q EXCEPT ![items[i].productId] = @ + sign * items[i].quantity],
                      items, i + 1, sign)

RawItems(items) ==
  [i \in 1..Len(items) |->
     OrderItem(items[i].productId, items[i].quantity, RawDetails(items[i].sel))]

\* PUT /api/customer-orders/:id
PutCustomerOrder(id, items) ==
  /\ UNCHANGED <<variants, options, reqs, rsel, rout, groups>>
  /\ snap' = NoSnap
  /\ IF id \notin DOMAIN orders \/ orders[id].orderSource # "CUSTOMER"
     THEN /\ last' = Response("update", "none", "none", 404)
          /\ UNCHANGED <<quantity, orders>>
     ELSE LET existingOrder == orders[id] IN
          IF \E i \in 1..Len(items) : items[i].productId \notin DOMAIN quantity
          THEN /\ last' = Response("update", existingOrder.state,
                                   existingOrder.state, 500)
               /\ UNCHANGED <<quantity, orders>>
          ELSE /\ quantity' = AdjustQuantity(
                                AdjustQuantity(quantity, existingOrder.items, 1, 1),
                                items, 1, -1)
               /\ InRange(quantity', variants)
               /\ orders' = [orders EXCEPT ![id].items = RawItems(items)]
               /\ last' = Response("update", existingOrder.state,
                                   existingOrder.state, 200)

\* DELETE /api/customer-orders/:id
DeleteCustomerOrder(id) ==
  /\ UNCHANGED <<variants, options, reqs, rsel, rout, groups>>
  /\ snap' = NoSnap
  /\ IF id \notin DOMAIN orders \/ orders[id].orderSource # "CUSTOMER"
     THEN /\ last' = Response("delete", "none", "none", 404)
          /\ UNCHANGED <<quantity, orders>>
     ELSE /\ quantity' = AdjustQuantity(quantity, orders[id].items, 1, 1)
          /\ InRange(quantity', variants)
          /\ orders' = [o \in DOMAIN orders \ {id} |-> orders[o]]
          /\ last' = Response("delete", orders[id].state, "none", 200)

----------------------------------------------------------------------------
(* routes/productOptions.js *)

\* orderItem.findFirst({ where: { productVariantId: { in: variantIds } } })
ReferencedInOrders(variantIds) ==
  \E id \in DOMAIN orders : \E i \in 1..Len(orders[id].items) :
     orders[id].items[i].productVariantId \in variantIds

\* DELETE /api/product-options/options/:optionId
DeleteOption(optionId) ==
  /\ UNCHANGED <<quantity, orders, reqs, rsel, rout, groups>>
  /\ snap' = NoSnap
  /\ IF optionId \notin options
     THEN /\ last' = Response("catalog", "none", "none", 404)
          /\ UNCHANGED <<variants, options>>
     ELSE LET variantIds == {variants[i].id : i \in {j \in 1..Len(variants) :
                                optionId \in variants[j].options}}
          IN IF variantIds # {} /\ ReferencedInOrders(variantIds)
             THEN /\ last' = Response("catalog", "none", "none", 400)
                  /\ UNCHANGED <<variants, options>>
             ELSE /\ variants' = SelectSeq(variants, LAMBDA v : v.id \notin variantIds)
                  /\ options' = options \ {optionId}
                  /\ last' = Response("catalog", "none", "none", 200)

----------------------------------------------------------------------------
(* Sequential specification: one request is handled at a time *)

DeletableOptions == {1}

Init ==
  /\ \E s \in 0..MaxStock :
       /\ quantity = [p \in Products |-> s]
       /\ variants = Catalog(s)
  /\ options = AllOptions
  /\ orders = <<>>
  /\ last = Response("none", "none", "none", 0)
  /\ snap = NoSnap
  /\ reqs = <<>>
  /\ groups = NoGroups
  /\ rsel = {}
  /\ rout = NoVariant

Next ==
  \/ \E ids \in [1..MaxRetries -> OrderIds], state \in States, driverId \in BodyDrivers,
        products \in ProductLists : CreateOrder(ids, state, driverId, products)
  \/ \E ids \in [1..MaxRetries -> OrderIds], items \in ProductLists :
        CreateCustomerOrder(ids, items)
  \/ \E id \in OrderIds, state \in States : PutOrderState(id, state)
  \/ \E id \in OrderIds, driverId \in DriverInputs : PutOrderDriver(id, driverId)
  \/ \E id \in OrderIds, state \in States, driverId \in BodyDrivers,
        products \in ProductLists : PutOrder(id, state, driverId, products)
  \/ \E id \in OrderIds : DeleteOrder(id)
  \/ \E id \in OrderIds, items \in ProductLists : PutCustomerOrder(id, items)
  \/ \E id \in OrderIds : DeleteCustomerOrder(id)
  \/ \E optionId \in DeletableOptions : DeleteOption(optionId)

Spec == Init /\ [][Next]_vars

TypeOK ==
  /\ DOMAIN orders \subseteq OrderIds
  /\ \A id \in DOMAIN orders : orders[id].state \in States

----------------------------------------------------------------------------
(* Properties of the stock transition engine *)

\* the requests that write state DELIVERING / RETURNED to order id
WritesDelivering(id) ==
  \/ PutOrderState(id, "DELIVERING")
  \/ \E driverId \in Drivers : PutOrderDriver(id, driverId)
  \/ \E driverId \in BodyDrivers, products \in ProductLists :
        PutOrder(id, "DELIVERING", driverId, products)

WritesReturned(id) ==
  \/ PutOrderState(id, "RETURNED")
  \/ \E driverId \in BodyDrivers, products \in ProductLists :
        PutOrder(id, "RETURNED", driverId, products)

StockUnchanged == quantity' = quantity /\ variants' = variants

\* counters q1, vs1 are counters q0, vs0 with every item's quantity taken from
\* (sign = -1) or added to (sign = 1) the bucket the item resolves to
Moved(q0, vs0, items, sign, q1, vs1) ==
  /\ Len(vs1) = Len(vs0)
  /\ \A j \in 1..Len(vs0) :
       vs1[j].stock = vs0[j].stock + sign * VariantDemand(vs0, items, vs0[j].id, 1)
  /\ \A p \in DOMAIN q0 : q1[p] = q0[p] + sign * ProductDemand(vs0, items, p, 1)

\* C1: a write of state DELIVERING to an order that is already DELIVERING, through
\* any of the three endpoints, changes no Variant.stock and no Product.quantity
C1_RepeatedDeliveringChangesNoStock ==
  [][StockUnchanged
       \/ \A id \in DOMAIN orders :
            orders[id].state = "DELIVERING" => ~WritesDelivering(id)]_vars

\* C1 witness: a DELIVERING write right after the write that entered DELIVERING
C1_Witness ==
  /\ snap.phase = "again" /\ snap.sufficient
  /\ last.edge = "repeat" /\ last.to = "DELIVERING" /\ last.status = 200
  /\ Moved(snap.quantity, snap.variants, snap.items, -1, quantity, variants)

\* C2: every write of DELIVERING to an order in another state takes each item's
\* quantity from the bucket the item resolves to
C2_EntryDeductsEveryItem ==
  [][\A id \in DOMAIN orders :
       (orders[id].state # "DELIVERING" /\ PutOrderState(id, "DELIVERING"))
         => Moved(quantity, variants, orders[id].items, -1, quantity', variants')]_vars

\* C3: every write of RETURNED to an order in another state adds each item's
\* quantity to the bucket the item resolves to; RETURNED on RETURNED changes no stock
C3_EntryRestoresEveryItem ==
  [][\A id \in DOMAIN orders :
       /\ (orders[id].state # "RETURNED" /\ PutOrderState(id, "RETURNED"))
            => Moved(quantity, variants, orders[id].items, 1, quantity', variants')
       /\ (orders[id].state = "RETURNED" /\ WritesReturned(id)) => StockUnchanged]_vars

\* C4: when every bucket holds what the order's items draw from it, entering
\* DELIVERING and then, as the next request, RETURNED with the same items leaves
\* every counter at its value before the DELIVERING write
C4_RoundTrip ==
  (snap.phase = "back" /\ snap.sufficient)
    => (quantity = snap.quantity /\ variants = snap.variants)

\* C4 witness: a completed round trip of an order that has an item
C4_Witness ==
  /\ snap.phase = "back" /\ snap.sufficient /\ Len(snap.items) > 0
  /\ last.edge = "restore" /\ last.status = 200

\* C5: order creation, deletion, customer-order update and deletion, and writes
\* that are no edge into DELIVERING or RETURNED leave every counter unchanged
C5_StockMovesOnlyOnEdges ==
  [][\A id \in OrderIds :
       /\ (\E ids \in [1..MaxRetries -> OrderIds], state \in States,
              driverId \in BodyDrivers, products \in ProductLists :
              CreateOrder(ids, state, driverId, products)) => StockUnchanged
       /\ (\E ids \in [1..MaxRetries -> OrderIds], items \in ProductLists :
              CreateCustomerOrder(ids, items)) => StockUnchanged
       /\ (\E state \in {"PLACED", "COMPLETED"} : PutOrderState(id, state)) => StockUnchanged
       /\ DeleteOrder(id) => StockUnchanged
       /\ (\E items \in ProductLists : PutCustomerOrder(id, items)) => StockUnchanged
       /\ DeleteCustomerOrder(id) => StockUnchanged]_vars

\* C6: a transition into DELIVERING whose deduction fails leaves the order's state
\* and every counter as they were before the request
C6_FailedTransitionChangesNothing ==
  [][\A id \in DOMAIN orders :
       (orders[id].state # "DELIVERING" /\ PutOrderState(id, "DELIVERING")
          /\ last'.status = 500)
         => (orders' = orders /\ StockUnchanged)]_vars

\* C8: a request that would take an order into DELIVERING while some item asks for
\* more than its bucket holds is rejected and changes neither the order nor the stock
C8_DeliveringOnlyAfterValidation ==
  [][\A id \in DOMAIN orders :
       orders[id].state # "DELIVERING" =>
         /\ (/\ ~validateStockForOrder(DB(quantity, variants), orders[id].items)
             /\ (PutOrderState(id, "DELIVERING")
                   \/ \E driverId \in Drivers : PutOrderDriver(id, driverId)))
              => (last'.status = 400 /\ orders' = orders /\ StockUnchanged)
         /\ \A driverId \in Drivers, products \in ProductLists :
              (/\ ~validateStockForOrder(DB(quantity, variants),
                                         UpdateItems(variants, products))
               /\ PutOrder(id, "DELIVERING", driverId, products))
                => (last'.status = 400 /\ orders' = orders /\ StockUnchanged)]_vars

----------------------------------------------------------------------------
(* Resolver harness: resolveVariantId on every variant list and selection    *)

MaxVariants == 3
ResolveOptions == {1, 2, 3}
VariantIds == <<"v1", "v2", "v3", "v4", "v5">>

\* the rows findMany may return: any option sets (hand-created variants carry no
\* optionHash, so sets may repeat), in any order
VariantLists ==
  UNION {[1..n -> SUBSET ResolveOptions] : n \in 0..MaxVariants}

AsVariants(sets) ==
  [i \in 1..Len(sets) |->
     [id |-> VariantIds[i], productId |-> "p1", options |-> sets[i], stock |-> 0,
      isActive |-> TRUE]]

InitResolve ==
  /\ \E sets \in VariantLists : variants = AsVariants(sets)
  /\ rsel \in SUBSET ResolveOptions
  /\ rout = "unset"
  /\ quantity = [p \in Products |-> 0]
  /\ options = ResolveOptions
  /\ orders = <<>>
  /\ last = Response("none", "none", "none", 0)
  /\ snap = NoSnap
  /\ reqs = <<>>
  /\ groups = NoGroups

Resolve ==
  /\ rout = "unset"
  /\ rout' = resolveVariantId(variants, "p1", rsel)
  /\ UNCHANGED <<quantity, variants, options, orders, last, snap, reqs, rsel, groups>>

NextResolve == Resolve

SpecResolve == InitResolve /\ [][NextResolve]_vars

\* indexes of the variants whose option set equals / is contained in the selection
ExactIdx == {i \in 1..Len(variants) : variants[i].options = rsel}
SubsetIdx == {i \in 1..Len(variants) : variants[i].options \subseteq rsel}
OptionsOfId(variantId) == variants[FindVariant(variants, variantId)].options

\* C9: when some variant's option set equals the non-empty selection, the variant
\* returned has exactly the selection as its option set
C9_ExactMatchPrecedence ==
  (rout # "unset" /\ rsel # {} /\ ExactIdx # {})
    => (rout # NoVariant /\ OptionsOfId(rout) = rsel)

\* C9 witness: an exact variant is returned although a variant with fewer options,
\* all of them selected, comes earlier in the list
C9_Witness ==
  /\ rout # "unset" /\ rout # NoVariant /\ OptionsOfId(rout) = rsel
  /\ \E i \in SubsetIdx : i < FindVariant(variants, rout) /\ variants[i].options # rsel

\* C10: when no variant's option set equals the selection, the variant returned is
\* the first of the largest ones among those whose options are all selected, and
\* no returned variant has an option outside the selection
C10_SubsetFallback ==
  rout # "unset" =>
    /\ (rout # NoVariant => OptionsOfId(rout) \subseteq rsel)
    /\ (ExactIdx = {} /\ SubsetIdx # {}) =>
         LET largest == {i \in SubsetIdx : \A j \in SubsetIdx :
                            Cardinality(variants[j].options) <= Cardinality(variants[i].options)}
             first == CHOOSE i \in largest : \A j \in largest : i <= j
         IN rout = variants[first].id

\* C10 witness: two subset variants of the same largest size, the first one returned,
\* and a variant with an unselected option in the list
C10_Witness ==
  /\ rout # "unset" /\ rout # NoVariant /\ ExactIdx = {}
  /\ \E i \in SubsetIdx : /\ i > FindVariant(variants, rout)
                          /\ Cardinality(variants[i].options) = Cardinality(OptionsOfId(rout))
  /\ \E i \in 1..Len(variants) : i \notin SubsetIdx

----------------------------------------------------------------------------
(* Concurrent specification: PUT /api/orders/:id/state requests in flight,  *)
(* each advancing from one await to the next                                *)

Reqs == {"r1", "r2"}

ReqIdle == [pc |-> "idle", id |-> "none", state |-> "none", from |-> "none",
            items |-> <<>>, i |-> 0, variantId |-> NoVariant, found |-> FALSE, stock |-> 0]

\* await prisma.order.findUnique({ where: { id } }): existingOrder
StateFind(r, id, state) ==
  /\ reqs[r].pc = "idle"
  /\ id \in DOMAIN orders
  /\ reqs' = [reqs EXCEPT ![r] = [ReqIdle EXCEPT !.pc = "update", !.id = id,
                                     !.state = state, !.from = orders[id].state]]
  /\ UNCHANGED <<quantity, variants, options, orders, last, snap, rsel, rout, groups>>

\* await prisma.order.update({ where: { id }, data: updateData }), then the stock branch
StateUpdate(r) ==
  /\ reqs[r].pc = "update"
  /\ orders' = [orders EXCEPT ![reqs[r].id].state = reqs[r].state]
  /\ reqs' = [reqs EXCEPT ![r] =
                IF Deducts(reqs[r].from, reqs[r].state) \/ Restores(reqs[r].from, reqs[r].state)
                THEN [reqs[r] EXCEPT !.pc = "load"]
                ELSE ReqIdle]
  /\ UNCHANGED <<quantity, variants, options, last, snap, rsel, rout, groups>>

\* deductStockForOrder / restoreStockForOrder: await prisma.order.findUnique with the items
OrderLoad(r) ==
  /\ reqs[r].pc = "load"
  /\ reqs' = [reqs EXCEPT ![r] =
                IF Len(orders[reqs[r].id].items) = 0 THEN ReqIdle
                ELSE [reqs[r] EXCEPT !.pc = "item", !.items = orders[reqs[r].id].items,
                                     !.i = 1]]
  /\ UNCHANGED <<quantity, variants, options, orders, last, snap, rsel, rout, groups>>

\* deductStockForItem / restoreStockForItem up to the findUnique of the item's bucket
\* (restoreProductStock reads nothing: its write uses neither found nor stock)
BucketRead(r) ==
  /\ reqs[r].pc = "item"
  /\ LET item == reqs[r].items[reqs[r].i]
         variantId == ItemVariantId(variants, item)
         j == FindVariant(variants, variantId)
     IN reqs' = [reqs EXCEPT ![r].pc = "write", ![r].variantId = variantId,
                   ![r].found = IF variantId # NoVariant THEN j # 0
                                ELSE item.productId \in DOMAIN quantity,
                   ![r].stock = IF variantId # NoVariant
                                THEN (IF j # 0 THEN variants[j].stock ELSE 0)
                                ELSE quantity[item.productId]]
  /\ UNCHANGED <<quantity, variants, options, orders, last, snap, rsel, rout, groups>>

\* the check on the row read, then update({ data: { stock: { decrement / increment } } })
BucketWrite(r) ==
  /\ reqs[r].pc = "write"
  /\ LET item == reqs[r].items[reqs[r].i]
         deducting == reqs[r].state = "DELIVERING"
         delta == IF deducting THEN 0 - item.quantity ELSE item.quantity
         j == FindVariant(variants, reqs[r].variantId)
     IN IF ~reqs[r].found \/ (deducting /\ reqs[r].stock < item.quantity)
           \/ (reqs[r].variantId # NoVariant /\ j = 0)
        THEN /\ reqs' = [reqs EXCEPT ![r] = ReqIdle]
             /\ UNCHANGED <<quantity, variants>>
        ELSE /\ IF reqs[r].variantId # NoVariant
                THEN /\ variants' = AddStock(variants, j, delta)
                     /\ UNCHANGED quantity
                ELSE /\ quantity' = [quantity EXCEPT ![item.productId] = @ + delta]
                     /\ UNCHANGED variants
             /\ InRange(quantity', variants')
             /\ reqs' = [reqs EXCEPT ![r] =
                           IF reqs[r].i = Len(reqs[r].items) THEN ReqIdle
                           ELSE [reqs[r] EXCEPT !.pc = "item", !.i = @ + 1]]
  /\ UNCHANGED <<options, orders, last, snap, rsel, rout, groups>>

\* an order placed through POST /api/customer-orders, no request in flight
InitConc ==
  /\ \E s \in 0..MaxStock :
       /\ quantity = [p \in Products |-> s]
       /\ variants = Catalog(s)
  /\ options = AllOptions
  /\ \E products \in ProductLists :
       orders = [id \in OrderIds |->
                   [state |-> "PLACED", orderSource |-> "CUSTOMER",
                    items |-> CustomerItems(variants, products)]]
  /\ last = Response("create", "none", "PLACED", 201)
  /\ snap = NoSnap
  /\ reqs = [r \in Reqs |-> ReqIdle]
  /\ rsel = {}
  /\ rout = NoVariant
  /\ groups = NoGroups

NextConc ==
  \/ \E r \in Reqs, id \in OrderIds, state \in {"DELIVERING", "RETURNED"} :
        StateFind(r, id, state)
  \/ \E r \in Reqs : StateUpdate(r)
  \/ \E r \in Reqs : OrderLoad(r)
  \/ \E r \in Reqs : BucketRead(r)
  \/ \E r \in Reqs : BucketWrite(r)

SpecConc == InitConc /\ [][NextConc]_vars

\* C7: after every deduction, in any interleaving of requests, every Variant.stock
\* and every Product.quantity is at least 0
C7_NoDeductionBelowZero ==
  /\ \A p \in DOMAIN quantity : quantity[p] >= 0
  /\ \A j \in 1..Len(variants) : variants[j].stock >= 0

----------------------------------------------------------------------------
(* Item harness: the stock engine on one order item, for every variant list, *)
(* every selection and every stored variantId                                *)

MaxItemVariants == 2

ItemVariantLists ==
  UNION {[1..n -> SUBSET ResolveOptions] : n \in 0..MaxItemVariants}

\* the variantId stored with the item: none, the first row's, or a deleted row's
StoredIds == {NoVariant, "v1", "v5"}

StockedVariants(sets, s) ==
  [i \in 1..Len(sets) |-> [AsVariants(sets)[i] EXCEPT !.stock = s]]

\* optionDetails as the handlers store them: { variantId, selections } or the raw array
ItemDetails(variantId, sel) ==
  {LinkedDetails(variantId, sel)}
    \cup (IF variantId = NoVariant THEN {RawDetails(sel)} ELSE {})

InitItem ==
  /\ \E sets \in ItemVariantLists, s \in 0..MaxStock :
       /\ variants = StockedVariants(sets, s)
       /\ quantity = [p \in Products |-> s]
  /\ rsel \in SUBSET ResolveOptions
  /\ \E variantId \in StoredIds : \E details \in ItemDetails(variantId, rsel) :
       orders = [id \in OrderIds |->
                   [state |-> "PLACED", orderSource |-> "ADMIN",
                    items |-> <<OrderItem("p1", 1, details)>>]]
  /\ rout = "unset"
  /\ options = ResolveOptions
  /\ last = Response("none", "none", "none", 0)
  /\ snap = NoSnap
  /\ reqs = <<>>
  /\ groups = NoGroups

ServiceResponse(call, status) == [edge |-> call, to |-> "none", status |-> status]

\* stockManagementService.deductStockForOrder(id)
ItemDeduct(id) ==
  /\ last.edge = "none"
  /\ LET r == deductStockForOrder(DB(quantity, variants), orders[id].items) IN
     /\ quantity' = r.quantity
     /\ variants' = r.variants
     /\ last' = ServiceResponse("deduct", IF r.ok THEN 200 ELSE 500)
  /\ UNCHANGED <<options, orders, snap, reqs, rsel, rout, groups>>

\* stockManagementService.restoreStockForOrder(id)
ItemRestore(id) ==
  /\ last.edge = "none"
  /\ LET r == restoreStockForOrder(DB(quantity, variants), orders[id].items) IN
     /\ quantity' = r.quantity
     /\ variants' = r.variants
     /\ last' = ServiceResponse("restore", IF r.ok THEN 200 ELSE 500)
  /\ UNCHANGED <<options, orders, snap, reqs, rsel, rout, groups>>

\* stockManagementService.validateStockForOrder(id): isValid
ItemValidate(id) ==
  /\ last.edge = "none"
  /\ last' = ServiceResponse("validate",
               IF validateStockForOrder(DB(quantity, variants), orders[id].items)
               THEN 200 ELSE 400)
  /\ UNCHANGED <<quantity, variants, options, orders, snap, reqs, rsel, rout, groups>>

NextItem ==
  \/ \E id \in OrderIds : ItemDeduct(id)
  \/ \E id \in OrderIds : ItemRestore(id)
  \/ \E id \in OrderIds : ItemValidate(id)

SpecItem == InitItem /\ [][NextItem]_vars

\* the harness item, its stored variantId, and whether any variant matches its selection
TheItem == orders["SP1"].items[1]
StoredId == TheItem.optionDetails.variantId
NoMatch == rsel = {} \/ SubsetIdx = {}

\* the step acts on Product.quantity of the item's product, by the item's quantity
ActsOnProduct ==
  LET p == TheItem.productId
      q == TheItem.quantity
  IN /\ variants' = variants
     /\ last'.edge = "deduct" =>
          IF quantity[p] >= q
          THEN last'.status = 200 /\ quantity' = [quantity EXCEPT ![p] = @ - q]
          ELSE last'.status = 500 /\ quantity' = quantity
     /\ last'.edge = "restore" =>
          last'.status = 200 /\ quantity' = [quantity EXCEPT ![p] = @ + q]
     /\ last'.edge = "validate" =>
          quantity' = quantity /\ (last'.status = 200 <=> quantity[p] >= q)

\* the step acts on Variant.stock of row j (0: no such row), by the item's quantity
ActsOnVariant(j) ==
  LET q == TheItem.quantity IN
  /\ quantity' = quantity
  /\ last'.edge = "deduct" =>
       IF j # 0 /\ variants[j].stock >= q
       THEN last'.status = 200 /\ variants' = AddStock(variants, j, 0 - q)
       ELSE last'.status = 500 /\ variants' = variants
  /\ last'.edge = "restore" =>
       IF j # 0
       THEN last'.status = 200 /\ variants' = AddStock(variants, j, q)
       ELSE last'.status = 500 /\ variants' = variants
  /\ last'.edge = "validate" =>
       variants' = variants /\ (last'.status = 200 <=> (j # 0 /\ variants[j].stock >= q))

\* C11: for an item without stored variantId whose selection is empty or contains no
\* variant's whole option set, deduction, restoration and validation act on
\* Product.quantity and change no Variant.stock
C11_NoMatchFallsBackToProduct ==
  [][(StoredId = NoVariant /\ NoMatch) => ActsOnProduct]_vars

\* C11 witness: a deduction taken from Product.quantity although the product has
\* variants and the selection is not empty
C11_Witness ==
  /\ last.edge = "deduct" /\ last.status = 200
  /\ StoredId = NoVariant /\ rsel # {} /\ SubsetIdx = {} /\ Len(variants) > 0
  /\ \A j \in 1..Len(variants) : variants[j].stock = quantity["p1"] + 1
\* C13: an item that stores a variantId is deducted, restored and validated on
\* exactly that variant (an error when the row is gone); an item that stores none
\* acts on the variant the resolver returns for its selections; Product.quantity is
\* used only when neither yields a variant
C13_StoredLinkWins ==
  [][/\ StoredId # NoVariant => ActsOnVariant(FindVariant(variants, StoredId))
     /\ (StoredId = NoVariant /\ ~NoMatch) =>
          ActsOnVariant(FindVariant(variants, resolveVariantId(variants, "p1", rsel)))
     /\ quantity' # quantity => (StoredId = NoVariant /\ NoMatch)]_vars

\* C13 witness: a deduction taken from the stored variant although the resolver
\* returns another variant for the item's selections
C13_Witness ==
  /\ last.edge = "deduct" /\ last.status = 200 /\ StoredId = "v1"
  /\ resolveVariantId(variants, "p1", rsel) \notin {NoVariant, "v1"}
  /\ variants[1].stock + 1 = quantity["p1"]

\* C12: the resolver of order creation, the resolver of PUT /:id and
\* StockManagementService.resolveVariantId return the same variant, or all none,
\* for the same variants and the same selection
C12_OneMatchingPolicy ==
  rout # "unset" =>
    /\ CreateResolveVariantId(variants, "p1", rsel) = rout
    /\ UpdateResolveVariantId(variants, "p1", rsel) = rout
\* the variants that order items created through the order endpoints refer to
LinkedVariantIds ==
  UNION {{orders[id].items[i].optionDetails.variantId : i \in 1..Len(orders[id].items)} :
           id \in DOMAIN orders} \ {NoVariant}

\* C18: a delete of an option that would remove a variant some order item refers to
\* is rejected and deletes no option and no variant
C18_ReferencedVariantBlocksDelete ==
  [][\A optionId \in DeletableOptions :
       (/\ \E j \in 1..Len(variants) :
              optionId \in variants[j].options /\ variants[j].id \in LinkedVariantIds
        /\ DeleteOption(optionId))
         => (last'.status = 400 /\ variants' = variants /\ options' = options)]_vars

----------------------------------------------------------------------------
(* Option tree of a product: product_option_groups rows, each with its       *)
(* product_options rows, as the include of generateVariantsForProduct loads  *)
(* them                                                                      *)

MaxLevel1Options == 2   \* the level-1 group holds 1..MaxLevel1Options options
MaxLevel2Options == 2   \* the level-2 group holds 0..MaxLevel2Options options

NoParent == "null"
NoHash == <<>>          \* optionHash IS NULL
NoPath == <<>>          \* path / optionPath IS NULL

\* a product_options row; priceValue 0 stands for both NULL and 0, which
\* (opt.priceValue || 0) does not tell apart
Option(id, name) ==
  [id |-> id, name |-> name, priceType |-> "FREE", priceValue |-> 0, sortOrder |-> 0,
   isAvailable |-> TRUE, stock |-> 0]

Group(id, name, level, parentGroupId, opts) ==
  [id |-> id, name |-> name, level |-> level, parentGroupId |-> parentGroupId,
   isParent |-> TRUE, isActive |-> TRUE, path |-> NoPath, options |-> opts]

Level1Names == <<"S", "M", "L">>
Level2Names == <<"R", "B", "G">>

Level1Group(m) == Group("g1", "Size", 1, NoParent, [i \in 1..m |-> Option(i, Level1Names[i])])
\* the level-2 group also holds one option that is not available
Level2Group(n) ==
  Group("g2", "Color", 2, "g1",
        [i \in 1..n |-> Option(10 + i, Level2Names[i])]
        \o <<[Option(19, "Gone") EXCEPT !.isAvailable = FALSE]>>)

\* the trees the catalog starts from: one root group; a root group with one
\* child group; a root group with two child groups; a second root group; a
\* chain of three levels
Trees(m, n) ==
  { <<Level1Group(m)>>,
    <<Level1Group(m), Level2Group(n)>>,
    <<Level1Group(m), Level2Group(n),
      Group("g3", "Fit", 2, "g1", <<Option(21, "Slim")>>)>>,
    <<Level1Group(m), Group("g3", "Gift", 1, NoParent, <<Option(21, "Wrap")>>),
      Level2Group(n)>>,
    <<Level1Group(1), Level2Group(n),
      Group("g3", "Fit", 3, "g2", <<Option(21, "Slim")>>)>> }

OptionIdsOf(gs) ==
  UNION {{gs[k].options[i].id : i \in 1..Len(gs[k].options)} : k \in 1..Len(gs)}

RECURSIVE Flatten(_)
Flatten(ss) == IF ss = <<>> THEN <<>> ELSE Head(ss) \o Flatten(Tail(ss))

\* orderBy: { sortOrder: "asc" }; rows with equal sortOrder keep their row order
RECURSIVE OrderBySortOrder(_)
OrderBySortOrder(rows) ==
  IF rows = <<>> THEN <<>>
  ELSE LET least == CHOOSE i \in 1..Len(rows) :
                      \A j \in 1..Len(rows) :
                         \/ rows[i].sortOrder < rows[j].sortOrder
                         \/ rows[i].sortOrder = rows[j].sortOrder /\ i <= j
       IN <<rows[least]>> \o
          OrderBySortOrder([k \in 1..(Len(rows) - 1) |->
                              IF k < least THEN rows[k] ELSE rows[k + 1]])

\* optionGroups: { where: { isActive: true }, include: { options: { where:
\* { isAvailable: true }, orderBy: { sortOrder: "asc" } } }, orderBy: level }
LoadOptionGroups(gs) ==
  LET active == SelectSeq(gs, LAMBDA g : g.isActive)
      loaded == [k \in 1..Len(active) |->
                   [active[k] EXCEPT !.options =
                      OrderBySortOrder(SelectSeq(active[k].options,
                                                 LAMBDA o : o.isAvailable))]]
      levels == {loaded[k].level : k \in 1..Len(loaded)}
      RECURSIVE ByLevel(_)
      ByLevel(ls) ==
        IF ls = {} THEN <<>>
        ELSE LET l == CHOOSE x \in ls : \A y \in ls : x <= y
             IN SelectSeq(loaded, LAMBDA g : g.level = l) \o ByLevel(ls \ {l})
  IN ByLevel(levels)

----------------------------------------------------------------------------
(* services/hierarchicalStockService.js (kept in src/prisma/seed.js):        *)
(* variant generation                                                        *)

RECURSIVE SortIds(_)
SortIds(ids) ==
  IF ids = {} THEN <<>>
  ELSE LET least == CHOOSE x \in ids : \A y \in ids : x <= y
       IN <<least>> \o SortIds(ids \ {least})

\* md5 of the sorted ids joined by "-": the sorted id list stands for its digest
createOptionHash(optionIds) == SortIds({optionIds[i] : i \in 1..Len(optionIds)})

RECURSIVE Pow100(_)
Pow100(e) == IF e = 0 THEN 1 ELSE 100 * Pow100(e - 1)

RECURSIVE SumTo(_, _)
SumTo(f, n) == IF n = 0 THEN 0 ELSE f[n] + SumTo(f, n - 1)

calculateSortOrder(path) ==
  SumTo([i \in 1..Len(path) |-> path[i].option.sortOrder * Pow100(Len(path) - i)],
        Len(path))

\* name is the option names joined by " ", optionPath the group:option pairs
\* joined by "/"; both are kept as the lists that are joined
createCombinationObject(path) ==
  [name |-> [i \in 1..Len(path) |-> path[i].option.name],
   options |-> {path[i].option.id : i \in 1..Len(path)},
   optionPath |-> [i \in 1..Len(path) |-> <<path[i].group.name, path[i].option.name>>],
   optionHash |-> createOptionHash([i \in 1..Len(path) |-> path[i].option.id]),
   priceAdjustment |-> SumTo([i \in 1..Len(path) |-> path[i].option.priceValue], Len(path)),
   sortOrder |-> calculateSortOrder(path)]

RECURSIVE generateCombinationsRecursive(_, _, _, _, _)
generateCombinationsRecursive(gs, currentLevel, maxLevel, currentPath, parentGroupId) ==
  IF currentLevel > maxLevel
  THEN IF Len(currentPath) > 0 THEN <<createCombinationObject(currentPath)>> ELSE <<>>
  ELSE LET currentLevelGroups ==
             SelectSeq(gs, LAMBDA g :
               /\ g.level = currentLevel
               /\ IF currentLevel = 1 THEN g.parentGroupId = NoParent
                                      ELSE g.parentGroupId = parentGroupId)
           hasChildGroups(group) ==
             \E k \in 1..Len(gs) : /\ gs[k].level = currentLevel + 1
                                   /\ gs[k].parentGroupId = group.id
           OfOption(group, option) ==
             LET newPath == Append(currentPath, [group |-> group, option |-> option])
             IN IF hasChildGroups(group)
                THEN generateCombinationsRecursive(gs, currentLevel + 1, maxLevel,
                                                   newPath, group.id)
                ELSE <<createCombinationObject(newPath)>>
           OfGroup(group) ==
             Flatten([i \in 1..Len(group.options) |-> OfOption(group, group.options[i])])
       IN Flatten([k \in 1..Len(currentLevelGroups) |-> OfGroup(currentLevelGroups[k])])

generateAllOptionCombinations(optionGroups) ==
  IF Len(optionGroups) = 0 THEN <<>>
  ELSE LET levels == {optionGroups[k].level : k \in 1..Len(optionGroups)}
           maxLevel == CHOOSE x \in levels : \A y \in levels : y <= x
       IN generateCombinationsRecursive(optionGroups, 1, maxLevel, <<>>, NoParent)

\* the id of the n-th product_variants row created
NewVariantId(n) == "v" \o ToString(n)

\* UNIQUE (productId, name) of product_variants: another row holds the name
NameTaken(vs, productId, name, id) ==
  \E i \in 1..Len(vs) : vs[i].productId = productId /\ vs[i].name = name /\ vs[i].id # id

\* findUnique({ where: { productId_optionHash } }): the row's index, 0 for none
FindByHash(vs, productId, optionHash) ==
  LET hits == {i \in 1..Len(vs) : vs[i].productId = productId /\ vs[i].optionHash = optionHash}
  IN IF hits = {} THEN 0 ELSE CHOOSE i \in hits : TRUE

needsUpdate(existingVariant, combination) ==
  \/ existingVariant.name # combination.name
  \/ existingVariant.optionPath # combination.optionPath
  \/ existingVariant.priceAdjustment # combination.priceAdjustment

\* an upsert that replaces a drifted row by a row made from the combination
createOrUpdateVariantReplacing(vs, productId, combination) ==
  LET i == FindByHash(vs, productId, combination.optionHash)
      row(id) == [id |-> id, productId |-> productId,
                  options |-> combination.options, stock |-> 0,
                  isActive |-> TRUE, name |-> combination.name,
                  optionHash |-> combination.optionHash,
                  optionPath |-> combination.optionPath,
                  priceAdjustment |-> combination.priceAdjustment,
                  sortOrder |-> combination.sortOrder]
  IN IF i # 0
     THEN IF needsUpdate(vs[i], combination)
          THEN IF NameTaken(vs, productId, combination.name, vs[i].id)
               THEN [variants |-> vs, action |-> "error", id |-> vs[i].id]
               ELSE [variants |-> [vs EXCEPT ![i] = row(vs[i].id)],
                     action |-> "updated", id |-> vs[i].id]
          ELSE [variants |-> vs, action |-> "skipped", id |-> vs[i].id]
     ELSE IF NameTaken(vs, productId, combination.name, NoVariant)
          THEN [variants |-> vs, action |-> "error", id |-> NoVariant]
          ELSE [variants |-> Append(vs, row(NewVariantId(Len(vs) + 1))),
                action |-> "created", id |-> NewVariantId(Len(vs) + 1)]

\* the outcome is the rows after the call and the action reported; "error" is
\* the P2002 that the caller's catch turns into an entry of results.errors
createOrUpdateVariant(vs, productId, combination) ==
  LET i == FindByHash(vs, productId, combination.optionHash)
  IN IF i # 0
     THEN IF needsUpdate(vs[i], combination)
          THEN IF NameTaken(vs, productId, combination.name, vs[i].id)
               THEN [variants |-> vs, action |-> "error", id |-> vs[i].id]
               ELSE [variants |-> [vs EXCEPT ![i].name = combination.name,
                                             ![i].optionPath = combination.optionPath,
                                             ![i].priceAdjustment = combination.priceAdjustment,
                                             ![i].sortOrder = combination.sortOrder],
                     action |-> "updated", id |-> vs[i].id]
          ELSE [variants |-> vs, action |-> "skipped", id |-> vs[i].id]
     ELSE IF NameTaken(vs, productId, combination.name, NoVariant)
          THEN [variants |-> vs, action |-> "error", id |-> NoVariant]
          ELSE [variants |->
                  Append(vs, [id |-> NewVariantId(Len(vs) + 1), productId |-> productId,
                              options |-> combination.options, stock |-> 0,
                              isActive |-> TRUE, name |-> combination.name,
                              optionHash |-> combination.optionHash,
                              optionPath |-> combination.optionPath,
                              priceAdjustment |-> combination.priceAdjustment,
                              sortOrder |-> combination.sortOrder]),
                action |-> "created", id |-> NewVariantId(Len(vs) + 1)]

NoResults == [created |-> <<>>, updated |-> <<>>, skipped |-> <<>>, errors |-> <<>>]

\* the loop over allCombinations: every entry of the four lists is the
\* combination's option set
RECURSIVE ProcessCombinations(_, _, _, _, _)
ProcessCombinations(vs, productId, allCombinations, i, results) ==
  IF i > Len(allCombinations) THEN [variants |-> vs, results |-> results]
  ELSE LET combination == allCombinations[i]
           result == createOrUpdateVariant(vs, productId, combination)
           list == CASE result.action = "created" -> "created"
                     [] result.action = "updated" -> "updated"
                     [] result.action = "error" -> "errors"
                     [] OTHER -> "skipped"
       IN ProcessCombinations(result.variants, productId, allCombinations, i + 1,
                              [results EXCEPT ![list] = Append(@, combination.options)])

RECURSIVE buildGroupPath(_, _)
buildGroupPath(group, allGroups) ==
  LET parents == {k \in 1..Len(allGroups) : allGroups[k].id = group.parentGroupId}
  IN IF group.parentGroupId = NoParent \/ parents = {} THEN <<group.name>>
     ELSE buildGroupPath(allGroups[CHOOSE k \in parents : TRUE], allGroups) \o <<group.name>>

updateOptionGroupPaths(gs) ==
  [k \in 1..Len(gs) |-> [gs[k] EXCEPT !.path = buildGroupPath(gs[k], gs)]]

\* the rows, the groups and the object returned by generateVariantsForProduct
generateVariantsForProduct(vs, gs, productId) ==
  LET allCombinations == generateAllOptionCombinations(LoadOptionGroups(gs))
      done == ProcessCombinations(vs, productId, allCombinations, 1, NoResults)
  IN IF Len(allCombinations) = 0
     THEN [variants |-> vs, groups |-> gs,
           results |-> [created |-> <<>>, updated |-> <<>>, message |-> "none found"]]
     ELSE [variants |-> done.variants, groups |-> updateOptionGroupPaths(gs),
           results |-> done.results]

----------------------------------------------------------------------------
(* Catalog specification: the option tree is edited and variants are         *)
(* generated and hand-created, one request at a time                         *)

CatalogResponse(call, status, results) ==
  [edge |-> call, to |-> "none", status |-> status, results |-> results]

\* POST /api/product-options/:productId/generate-variants
GenerateVariants(productId) ==
  /\ UNCHANGED <<quantity, options, orders, snap, reqs, rsel, rout>>
  /\ IF productId \notin Products
     THEN /\ last' = CatalogResponse("generate", 500, NoResults)
          /\ UNCHANGED <<variants, groups>>
     ELSE LET out == generateVariantsForProduct(variants, groups, productId)
          IN /\ variants' = out.variants
             /\ groups' = out.groups
             /\ last' = CatalogResponse("generate", 200, out.results)

\* the bodies of PUT /options/:optionId that are sent
\* a JSON value of req.body.priceValue: left out, null, "" or a number
Undefined == [kind |-> "undefined", num |-> 0]
Null == [kind |-> "null", num |-> 0]
EmptyString == [kind |-> "empty", num |-> 0]
Number(n) == [kind |-> "number", num |-> n]

PriceTypes == {"FREE", "BASE", "FIXED", "PERCENTAGE"}

\* body("priceValue").optional({ nullable: true }).custom(...): the chain is
\* skipped for a value that is left out or null; the custom test throws for a
\* priced type whose value is null, undefined, "", not a number or negative
priceValueValidation(body) ==
  \/ body.priceValue.kind \in {"undefined", "null"}
  \/ body.priceType \in {"BASE", "FIXED", "PERCENTAGE"} =>
        (body.priceValue.kind = "number" /\ body.priceValue.num >= 0)

\* optionValidation, for bodies whose other fields are well formed
optionValidation(body) ==
  /\ body.priceType \in PriceTypes
  /\ priceValueValidation(body)

\* priceValue ? parseFloat(priceValue) : null; the stored 0 stands for NULL too
priceValueNum(priceValue) ==
  IF priceValue.kind = "number" /\ priceValue.num # 0 THEN priceValue.num ELSE 0

\* the row written from a body; the bodies sent carry no stock, and
\* parseInt(undefined) || 0 is 0
OptionRow(id, body) ==
  [id |-> id, name |-> body.name, priceType |-> body.priceType,
   priceValue |-> priceValueNum(body.priceValue), sortOrder |-> body.sortOrder,
   isAvailable |-> body.isAvailable, stock |-> 0]

\* the bodies of PUT /options/:optionId that are sent
OptionEdits ==
  { [name |-> "S", priceType |-> "FREE", priceValue |-> Undefined, sortOrder |-> 0,
     isAvailable |-> TRUE],
    [name |-> "M", priceType |-> "FREE", priceValue |-> Undefined, sortOrder |-> 0,
     isAvailable |-> TRUE],
    [name |-> "S", priceType |-> "FIXED", priceValue |-> Number(1), sortOrder |-> 1,
     isAvailable |-> TRUE] }

EditableOptions == {1}

\* PUT /api/product-options/options/:optionId
UpdateOption(optionId, body) ==
  /\ UNCHANGED <<quantity, variants, options, orders, snap, reqs, rsel, rout>>
  /\ IF ~optionValidation(body)
     THEN /\ last' = CatalogResponse("option", 400, NoResults)
          /\ UNCHANGED groups
     ELSE IF optionId \notin options
     THEN /\ last' = CatalogResponse("option", 404, NoResults)
          /\ UNCHANGED groups
     ELSE /\ groups' = [k \in 1..Len(groups) |->
                          [groups[k] EXCEPT !.options =
                             [i \in 1..Len(groups[k].options) |->
                                IF groups[k].options[i].id = optionId
                                THEN OptionRow(optionId, body)
                                ELSE groups[k].options[i]]]]
          /\ last' = CatalogResponse("option", 200, NoResults)

MaxOptionRows == 3   \* requests that would create more than MaxOptionRows options are left out

\* POST /api/product-options/groups/:groupId/options
CreateOption(groupId, body) ==
  /\ UNCHANGED <<quantity, variants, orders, snap, reqs, rsel, rout>>
  /\ IF ~optionValidation(body)
     THEN /\ last' = CatalogResponse("option", 400, NoResults)
          /\ UNCHANGED <<groups, options>>
     ELSE IF \A k \in 1..Len(groups) : groups[k].id # groupId
     THEN /\ last' = CatalogResponse("option", 404, NoResults)
          /\ UNCHANGED <<groups, options>>
     ELSE LET id == 30 + Cardinality(options)
          IN /\ Cardinality(options) < MaxOptionRows
             /\ groups' = [k \in 1..Len(groups) |->
                             IF groups[k].id = groupId
                             THEN [groups[k] EXCEPT !.options = Append(@, OptionRow(id, body))]
                             ELSE groups[k]]
             /\ options' = options \cup {id}
             /\ last' = CatalogResponse("option", 201, NoResults)

\* the bodies of POST /:productId/variants that are sent
VariantBodies ==
  { [name |-> <<"X">>, stock |-> 1, priceAdjustment |-> 0, optionIds |-> {1, 11}],
    [name |-> <<"S", "R">>, stock |-> 1, priceAdjustment |-> 0, optionIds |-> {1}] }

\* POST /api/products/:productId/variants
CreateVariant(productId, name, stock, priceAdjustment, optionIds) ==
  /\ UNCHANGED <<quantity, options, groups, orders, snap, reqs, rsel, rout>>
  /\ IF productId \notin Products
     THEN /\ last' = CatalogResponse("variant", 404, NoResults)
          /\ UNCHANGED variants
     ELSE IF ~(optionIds \subseteq options)
     THEN /\ last' = CatalogResponse("variant", 400, NoResults)
          /\ UNCHANGED variants
     ELSE IF NameTaken(variants, productId, name, NoVariant)
     THEN /\ last' = CatalogResponse("variant", 400, NoResults)
          /\ UNCHANGED variants
     ELSE /\ variants' =
               Append(variants,
                      [id |-> NewVariantId(Len(variants) + 1), productId |-> productId,
                       options |-> optionIds, stock |-> stock, isActive |-> TRUE,
                       name |-> name, optionHash |-> NoHash, optionPath |-> NoPath,
                       priceAdjustment |-> priceAdjustment, sortOrder |-> 0])
          /\ last' = CatalogResponse("variant", 201, NoResults)

\* generateVariantCombinations: the pairs of a level-1 option and an option of
\* a level-2 group below its group, in loop order
PairsOf(gs) ==
  LET loaded == [k \in 1..Len(gs) |->
                   [gs[k] EXCEPT !.options =
                      OrderBySortOrder(SelectSeq(gs[k].options, LAMBDA o : o.isAvailable))]]
      parentGroups == SelectSeq(loaded, LAMBDA g : g.level = 1 /\ Len(g.options) > 0)
      childGroups == SelectSeq(loaded, LAMBDA g : g.level = 2 /\ Len(g.options) > 0)
      OfChild(parentOption, childGroup) ==
        [j \in 1..Len(childGroup.options) |->
           [parentOption |-> parentOption, childOption |-> childGroup.options[j]]]
      OfParentOption(parentGroup, parentOption) ==
        LET relevantChildGroups ==
              SelectSeq(childGroups, LAMBDA cg : cg.parentGroupId = parentGroup.id)
        IN Flatten([k \in 1..Len(relevantChildGroups) |->
                      OfChild(parentOption, relevantChildGroups[k])])
      OfParent(parentGroup) ==
        Flatten([i \in 1..Len(parentGroup.options) |->
                   OfParentOption(parentGroup, parentGroup.options[i])])
  IN Flatten([k \in 1..Len(parentGroups) |-> OfParent(parentGroups[k])])

RECURSIVE generateVariantCombinations(_, _, _, _)
generateVariantCombinations(vs, productId, pairs, i) ==
  IF i > Len(pairs) THEN vs
  ELSE LET variantName == <<pairs[i].parentOption.name, pairs[i].childOption.name>>
           existingVariant == NameTaken(vs, productId, variantName, NoVariant)
       IN generateVariantCombinations(
            IF existingVariant THEN vs
            ELSE Append(vs, [id |-> NewVariantId(Len(vs) + 1), productId |-> productId,
                             options |-> {pairs[i].parentOption.id, pairs[i].childOption.id},
                             stock |-> 0, isActive |-> TRUE, name |-> variantName,
                             optionHash |-> NoHash, optionPath |-> NoPath,
                             priceAdjustment |-> pairs[i].parentOption.priceValue
                                                 + pairs[i].childOption.priceValue,
                             sortOrder |-> 0]),
            productId, pairs, i + 1)

\* POST /api/products/:productId/variants/generate
GenerateTwoLevel(productId) ==
  /\ UNCHANGED <<quantity, options, groups, orders, snap, reqs, rsel, rout>>
  /\ IF productId \notin Products
     THEN /\ last' = CatalogResponse("generate2", 404, NoResults)
          /\ UNCHANGED variants
     ELSE /\ variants' = generateVariantCombinations(variants, productId, PairsOf(groups), 1)
          /\ last' = CatalogResponse("generate2", 200, NoResults)

\* PUT /api/product-options/variants/:variantId/stock
UpdateVariantStock(variantId, stock) ==
  /\ UNCHANGED <<quantity, options, groups, orders, snap, reqs, rsel, rout>>
  /\ IF \A i \in 1..Len(variants) : variants[i].id # variantId
     THEN /\ last' = CatalogResponse("stock", 500, NoResults)
          /\ UNCHANGED variants
     ELSE /\ variants' = [i \in 1..Len(variants) |->
                            IF variants[i].id = variantId
                            THEN [variants[i] EXCEPT !.stock = stock]
                            ELSE variants[i]]
          /\ last' = CatalogResponse("stock", 200, NoResults)

\* the stock updates that are sent
StockUpdates == {[variantId |-> "v1", stock |-> 1]}

InitCatalog ==
  /\ \E m \in 1..MaxLevel1Options, n \in 0..MaxLevel2Options : groups \in Trees(m, n)
  /\ options = OptionIdsOf(groups)
  /\ variants = <<>>
  /\ quantity = [p \in Products |-> 0]
  /\ orders = <<>>
  /\ last = CatalogResponse("none", 0, NoResults)
  /\ snap = NoSnap
  /\ reqs = <<>>
  /\ rsel = {}
  /\ rout = NoVariant

NextCatalog ==
  \/ \E productId \in Products : GenerateVariants(productId)
  \/ \E optionId \in EditableOptions, body \in OptionEdits : UpdateOption(optionId, body)
  \/ \E productId \in Products, body \in VariantBodies :
        CreateVariant(productId, body.name, body.stock, body.priceAdjustment, body.optionIds)
  \/ \E body \in StockUpdates : UpdateVariantStock(body.variantId, body.stock)

SpecCatalog == InitCatalog /\ [][NextCatalog]_vars

----------------------------------------------------------------------------
(* Hand-made variants: the three ways of creating variants on one tree       *)

InitManual ==
  /\ groups = <<Level1Group(2), Level2Group(1)>>
  /\ options = OptionIdsOf(groups)
  /\ variants = <<>>
  /\ quantity = [p \in Products |-> 0]
  /\ orders = <<>>
  /\ last = CatalogResponse("none", 0, NoResults)
  /\ snap = NoSnap
  /\ reqs = <<>>
  /\ rsel = {}
  /\ rout = NoVariant

NextManual ==
  \/ \E productId \in Products : GenerateVariants(productId)
  \/ \E optionId \in EditableOptions, body \in OptionEdits : UpdateOption(optionId, body)
  \/ \E productId \in Products, body \in VariantBodies :
        CreateVariant(productId, body.name, body.stock, body.priceAdjustment, body.optionIds)
  \/ \E productId \in Products : GenerateTwoLevel(productId)

SpecManual == InitManual /\ [][NextManual]_vars

----------------------------------------------------------------------------
(* Properties of variant generation *)

\* the last request was a generation that answered
Generated == last.edge = "generate" /\ last.status = 200

\* what a further call of generateVariantsForProduct would do in this state
SecondCall == generateVariantsForProduct(variants, groups, "p1")

Combinations == generateAllOptionCombinations(LoadOptionGroups(groups))

ListedIn(results, list) ==
  IF list \in DOMAIN results
  THEN {results[list][i] : i \in 1..Len(results[list])}
  ELSE {}

\* C14: once generateVariantsForProduct has run, a second call on the unchanged
\* option tree creates no variant and updates none, reports every combination
\* in skipped and none in created, updated or errors, and leaves the product's
\* variants as they are
C14_GenerationIdempotent ==
  Generated =>
    /\ SecondCall.variants = variants
    /\ ListedIn(SecondCall.results, "created") = {}
    /\ ListedIn(SecondCall.results, "updated") = {}
    /\ ListedIn(SecondCall.results, "errors") = {}
    /\ \A i \in 1..Len(Combinations) :
          Combinations[i].options \in ListedIn(SecondCall.results, "skipped")

\* the step is a call of generateVariantsForProduct that answered
GenerationStep == last'.edge = "generate" /\ last'.status = 200

\* row i keeps everything but the four columns that the update branch writes
KeepsIdentity(i) ==
  /\ variants'[i].id = variants[i].id
  /\ variants'[i].productId = variants[i].productId
  /\ variants'[i].options = variants[i].options
  /\ variants'[i].stock = variants[i].stock
  /\ variants'[i].optionHash = variants[i].optionHash
  /\ variants'[i].isActive = variants[i].isActive

\* row i was rewritten from the combination with its hash, whose name,
\* optionPath or priceAdjustment it no longer carried
RewrittenFromDrift(i, combinations) ==
  \E k \in 1..Len(combinations) :
     /\ combinations[k].optionHash = variants[i].optionHash
     /\ needsUpdate(variants[i], combinations[k])
     /\ variants'[i].name = combinations[k].name
     /\ variants'[i].optionPath = combinations[k].optionPath
     /\ variants'[i].priceAdjustment = combinations[k].priceAdjustment

\* row j is new: made from a combination whose hash no row carried
AddedForMissing(j, combinations) ==
  \E k \in 1..Len(combinations) :
     /\ combinations[k].optionHash = variants'[j].optionHash
     /\ variants'[j].options = combinations[k].options
     /\ \A i \in 1..Len(variants) : variants[i].optionHash # combinations[k].optionHash

C16_OneVariantPerCombination ==
  \A i, j \in 1..Len(variants) :
     (variants[i].productId = variants[j].productId
        /\ variants[i].options = variants[j].options) => i = j

\* Root-to-leaf paths of the option tree, stated on the rows: a chain of active
\* groups from a root group down to a group without child group, and one
\* available option picked in each
ActiveGroups == {k \in 1..Len(groups) : groups[k].isActive}

IsChildGroup(c, p) ==
  /\ groups[c].parentGroupId = groups[p].id
  /\ groups[c].level = groups[p].level + 1

GroupChains ==
  {ch \in UNION {[1..n -> ActiveGroups] : n \in 1..Len(groups)} :
     /\ groups[ch[1]].level = 1
     /\ groups[ch[1]].parentGroupId = NoParent
     /\ \A i \in 1..(Len(ch) - 1) : IsChildGroup(ch[i + 1], ch[i])
     /\ \A c \in ActiveGroups : ~IsChildGroup(c, ch[Len(ch)])}

AvailableOptions(k) ==
  {groups[k].options[i] : i \in {j \in 1..Len(groups[k].options) :
                                    groups[k].options[j].isAvailable}}

LeafPaths ==
  UNION {{p \in [1..Len(ch) -> UNION {AvailableOptions(k) : k \in ActiveGroups}] :
            \A i \in 1..Len(ch) : p[i] \in AvailableOptions(ch[i])} : ch \in GroupChains}

\* the rows are exactly one variant per root-to-leaf path, with stock 0, the
\* path's options and the sum of their priceValue
OneVariantPerPath(vs, paths) ==
  /\ Len(vs) = Cardinality(paths)
  /\ \A p \in paths :
        \E i \in 1..Len(vs) :
           /\ vs[i].options = {p[k].id : k \in 1..Len(p)}
           /\ vs[i].stock = 0
           /\ vs[i].priceAdjustment = SumTo([k \in 1..Len(p) |-> p[k].priceValue], Len(p))

\* the tree is one level-1 group with one level-2 group below it
IsTwoLevelTree ==
  /\ Len(groups) = 2
  /\ groups[1].level = 1 /\ groups[1].parentGroupId = NoParent
  /\ groups[2].level = 2 /\ groups[2].parentGroupId = groups[1].id

\* C17: on a product without variants generateVariantsForProduct creates one
\* variant per root-to-leaf path, with stock 0, the path's options as option set
\* and the sum of their priceValue as priceAdjustment; for one level-1 group of
\* m available options above one level-2 group of n available options these
\* are exactly m*n variants, one per pair
C17_CartesianExpansion ==
  [][(GenerationStep /\ variants = <<>>) =>
       LET paths == LeafPaths
       IN /\ OneVariantPerPath(variants', paths)
          /\ IsTwoLevelTree =>
               Len(variants') = Cardinality(AvailableOptions(1))
                                * Cardinality(AvailableOptions(2))]_vars

----------------------------------------------------------------------------
(* Option groups: POST /:productId/groups and PUT /groups/:groupId           *)

MaxGroups == 3   \* requests that would create more than MaxGroups groups are left out

\* level 0 stands for a body without level: parseInt(undefined) is NaN
LevelInputs == {0, 1, 2, 3}

\* the bodies that are sent; the group "gX" does not exist
GroupBodies ==
  [parentGroupId : {NoParent, "g1", "g2", "gX"}, isParent : BOOLEAN, level : LevelInputs]

\* parseInt(level) || (isParentBool ? 1 : 2)
levelNum(body) == IF body.level # 0 THEN body.level ELSE IF body.isParent THEN 1 ELSE 2

FindGroup(gs, groupId) ==
  LET hits == {k \in 1..Len(gs) : gs[k].id = groupId}
  IN IF hits = {} THEN 0 ELSE CHOOSE k \in hits : TRUE

\* POST /api/product-options/:productId/groups; the product keeps hasOptions
CreateOptionGroup(productId, body) ==
  /\ UNCHANGED <<quantity, variants, options, orders, snap, reqs, rsel, rout>>
  /\ IF productId \notin Products
     THEN /\ last' = CatalogResponse("group", 404, NoResults)
          /\ UNCHANGED groups
     ELSE IF body.parentGroupId # NoParent /\ FindGroup(groups, body.parentGroupId) = 0
     THEN /\ last' = CatalogResponse("group", 400, NoResults)
          /\ UNCHANGED groups
     ELSE IF /\ body.parentGroupId # NoParent
             /\ ~groups[FindGroup(groups, body.parentGroupId)].isParent
     THEN /\ last' = CatalogResponse("group", 400, NoResults)
          /\ UNCHANGED groups
     ELSE /\ Len(groups) < MaxGroups
          /\ groups' = Append(groups,
                              [Group("g" \o ToString(Len(groups) + 1), "Group",
                                     levelNum(body), body.parentGroupId, <<>>)
                                 EXCEPT !.isParent = body.isParent])
          /\ last' = CatalogResponse("group", 201, NoResults)

\* PUT /api/product-options/groups/:groupId
UpdateOptionGroup(groupId, body) ==
  /\ UNCHANGED <<quantity, variants, options, orders, snap, reqs, rsel, rout>>
  /\ LET k == FindGroup(groups, groupId)
         changed == /\ k # 0
                    /\ body.parentGroupId # NoParent
                    /\ body.parentGroupId # groups[k].parentGroupId
     IN IF k = 0
        THEN /\ last' = CatalogResponse("group", 404, NoResults)
             /\ UNCHANGED groups
        ELSE IF changed /\ FindGroup(groups, body.parentGroupId) = 0
        THEN /\ last' = CatalogResponse("group", 400, NoResults)
             /\ UNCHANGED groups
        ELSE IF changed /\ ~groups[FindGroup(groups, body.parentGroupId)].isParent
        THEN /\ last' = CatalogResponse("group", 400, NoResults)
             /\ UNCHANGED groups
        ELSE IF changed /\ body.parentGroupId = groupId
        THEN /\ last' = CatalogResponse("group", 400, NoResults)
             /\ UNCHANGED groups
        ELSE /\ groups' = [groups EXCEPT ![k].parentGroupId = body.parentGroupId,
                                         ![k].isParent = body.isParent,
                                         ![k].level = levelNum(body)]
             /\ last' = CatalogResponse("group", 200, NoResults)

GroupInputIds == {"g1", "g2", "gX"}

InitGroups ==
  /\ groups = NoGroups
  /\ options = {}
  /\ variants = <<>>
  /\ quantity = [p \in Products |-> 0]
  /\ orders = <<>>
  /\ last = CatalogResponse("none", 0, NoResults)
  /\ snap = NoSnap
  /\ reqs = <<>>
  /\ rsel = {}
  /\ rout = NoVariant

NextGroups ==
  \/ \E productId \in Products, body \in GroupBodies : CreateOptionGroup(productId, body)
  \/ \E groupId \in GroupInputIds, body \in GroupBodies : UpdateOptionGroup(groupId, body)

SpecGroups == InitGroups /\ [][NextGroups]_vars

\* C20: after any sequence of CreateOptionGroup and UpdateOptionGroup calls,
\* every option group with a parentGroupId has its parent's level + 1 and every
\* group without a parent has level 1
C20_LevelInvariant ==
  \A k \in 1..Len(groups) :
     IF groups[k].parentGroupId = NoParent
     THEN groups[k].level = 1
     ELSE \E p \in 1..Len(groups) :
             /\ groups[p].id = groups[k].parentGroupId
             /\ groups[k].level = groups[p].level + 1

----------------------------------------------------------------------------
(* DELETE /api/product-options/groups/:groupId next to order creation: the   *)
(* delete advances from one await to the next                                *)

Deleters == {"r1"}

DeleterIdle == [pc |-> "idle", groupsToDelete |-> <<>>, optionIds |-> {}, variantIds |-> {}]

\* the tree behind Catalog: option 1 in the level-1 group, option 2 in its child
\* group, whose stored level is the one its creation was sent with
CascadeTree(level) ==
  << Group("g1", "Size", 1, NoParent, <<Option(1, "S")>>),
     Group("g2", "Color", level, "g1", <<Option(2, "R")>>) >>

CascadeLevels == {1, 2}

\* the while (changed) loop: the group and all its descendants
RECURSIVE Descendants(_, _)
Descendants(allGroups, toDelete) ==
  LET more == {allGroups[k].id : k \in {j \in 1..Len(allGroups) :
                  /\ allGroups[j].parentGroupId # NoParent
                  /\ allGroups[j].parentGroupId \in toDelete
                  /\ allGroups[j].id \notin toDelete}}
  IN IF more = {} THEN toDelete ELSE Descendants(allGroups, toDelete \cup more)

\* groupsToDelete.sort((a, b) => (b.level || 0) - (a.level || 0)): a stable
\* sort, rows of equal level keep their order
RECURSIVE sortedByLevelDesc(_)
sortedByLevelDesc(rows) ==
  IF rows = <<>> THEN <<>>
  ELSE LET first == CHOOSE i \in 1..Len(rows) :
                      \A j \in 1..Len(rows) :
                         \/ rows[i].level > rows[j].level
                         \/ rows[i].level = rows[j].level /\ i <= j
       IN <<rows[first]>> \o
          sortedByLevelDesc([k \in 1..(Len(rows) - 1) |->
                               IF k < first THEN rows[k] ELSE rows[k + 1]])

\* steps 1 to 4: the group, its descendants, their options, the variants using them
DeleteGroupLoad(r, groupId) ==
  /\ reqs[r].pc = "idle"
  /\ UNCHANGED <<quantity, variants, options, orders, snap, rsel, rout, groups>>
  /\ IF FindGroup(groups, groupId) = 0
     THEN /\ last' = Response("catalog", "none", "none", 404)
          /\ UNCHANGED reqs
     ELSE LET toDelete == Descendants(groups, {groupId})
              groupsToDelete == SelectSeq(groups, LAMBDA g : g.id \in toDelete)
              optionIds == OptionIdsOf(groupsToDelete)
              variantIds == {variants[i].id : i \in {j \in 1..Len(variants) :
                                variants[j].options \cap optionIds # {}}}
          IN /\ reqs' = [reqs EXCEPT ![r] = [pc |-> "guard",
                                             groupsToDelete |-> groupsToDelete,
                                             optionIds |-> optionIds,
                                             variantIds |-> variantIds]]
             /\ UNCHANGED last

\* step 5: orderItem.findFirst({ where: { productVariantId: { in: variantIds } } })
DeleteGroupGuard(r) ==
  /\ reqs[r].pc = "guard"
  /\ UNCHANGED <<quantity, variants, options, orders, snap, rsel, rout, groups>>
  /\ IF reqs[r].variantIds # {} /\ ReferencedInOrders(reqs[r].variantIds)
     THEN /\ last' = Response("catalog", "none", "none", 400)
          /\ reqs' = [reqs EXCEPT ![r] = DeleterIdle]
     ELSE /\ reqs' = [reqs EXCEPT ![r].pc = "transaction"]
          /\ UNCHANGED last

\* the groups after delete({ where: { id } }) of every listed group in turn:
\* rows pointing at a deleted parent get parentGroupId NULL
RECURSIVE DeleteGroups(_, _, _)
DeleteGroups(gs, order, i) ==
  IF i > Len(order) THEN gs
  ELSE LET rest == SelectSeq(gs, LAMBDA g : g.id # order[i].id)
       IN DeleteGroups([k \in 1..Len(rest) |->
                          IF rest[k].parentGroupId = order[i].id
                          THEN [rest[k] EXCEPT !.parentGroupId = NoParent]
                          ELSE rest[k]],
                       order, i + 1)

\* steps 6 and 7: the transaction, then the answer
DeleteGroupTransaction(r) ==
  /\ reqs[r].pc = "transaction"
  /\ UNCHANGED <<quantity, orders, snap, rsel, rout>>
  /\ LET kept == SelectSeq(variants, LAMBDA v : v.id \notin reqs[r].variantIds)
     IN variants' = [i \in 1..Len(kept) |->
                       [kept[i] EXCEPT !.options = @ \ reqs[r].optionIds]]
  /\ groups' = DeleteGroups(groups, sortedByLevelDesc(reqs[r].groupsToDelete), 1)
  /\ options' = options \ reqs[r].optionIds
  /\ last' = Response("catalog", "none", "none", 200)
  /\ reqs' = [reqs EXCEPT ![r] = DeleterIdle]

CascadeStates == {"PLACED", "DELIVERING"}

InitCascade ==
  /\ \E s \in 0..MaxStock :
       /\ quantity = [p \in Products |-> s]
       /\ variants = Catalog(s)
  /\ options = AllOptions
  /\ \E level \in CascadeLevels : groups = CascadeTree(level)
  /\ orders = <<>>
  /\ last = Response("none", "none", "none", 0)
  /\ snap = NoSnap
  /\ reqs = [r \in Deleters |-> DeleterIdle]
  /\ rsel = {}
  /\ rout = NoVariant

NextCascade ==
  \/ \E r \in Deleters, groupId \in GroupInputIds : DeleteGroupLoad(r, groupId)
  \/ \E r \in Deleters : DeleteGroupGuard(r)
  \/ \E r \in Deleters : DeleteGroupTransaction(r)
  \/ \E ids \in [1..MaxRetries -> OrderIds], state \in CascadeStates,
        driverId \in BodyDrivers, products \in ProductLists :
        CreateOrder(ids, state, driverId, products)

SpecCascade == InitCascade /\ [][NextCascade]_vars

\* the step removes a variant row that an order item is linked to
RemovesLinkedVariant ==
  \E i \in 1..Len(variants) :
     /\ variants[i].id \in LinkedVariantIds
     /\ \A j \in 1..Len(variants') : variants'[j].id # variants[i].id

\* every listed group comes before its listed parent
DeepestFirst(order) ==
  \A c, p \in 1..Len(order) : order[c].parentGroupId = order[p].id => c < p

\* C19: in no interleaving of DeleteOptionGroup with order creation is a variant
\* deleted while an order item referencing it exists, and the cascade deletes
\* every group before its parent
C19_GuardAndCascadeAtomic ==
  [][/\ ~RemovesLinkedVariant
     /\ \A r \in Deleters :
           (reqs[r].pc = "transaction" /\ reqs'[r].pc = "idle") =>
              DeepestFirst(sortedByLevelDesc(reqs[r].groupsToDelete))]_vars

----------------------------------------------------------------------------
(* Properties of the parentGroupId relation *)

\* the ids reached from a group by following parentGroupId at most n times
RECURSIVE AncestorsWithin(_, _)
AncestorsWithin(ids, n) ==
  IF n = 0 THEN {}
  ELSE LET parents == {groups[k].parentGroupId :
                         k \in {j \in 1..Len(groups) : groups[j].id \in ids}} \ {NoParent}
       IN parents \cup AncestorsWithin(parents, n - 1)

\* C21: after any sequence of CreateOptionGroup and UpdateOptionGroup calls no
\* group is its own ancestor, for cycles of any length
C21_ParentRelationAcyclic ==
  \A k \in 1..Len(groups) : groups[k].id \notin AncestorsWithin({groups[k].id}, Len(groups))

----------------------------------------------------------------------------
(* Options: POST /groups/:groupId/options and PUT /options/:optionId on one  *)
(* group, with every kind of price value                                     *)

PriceValues == {Undefined, Null, EmptyString, Number(0 - 1), Number(0), Number(1)}

OptionBodies ==
  {[name |-> "N", priceType |-> t, priceValue |-> v, sortOrder |-> 0, isAvailable |-> TRUE] :
     t \in PriceTypes, v \in PriceValues}

OptionGroupInputs == {"g1", "gX"}
OptionInputs == {1, 31, 99}

InitOption ==
  /\ groups = <<Level1Group(1)>>
  /\ options = OptionIdsOf(groups)
  /\ variants = <<>>
  /\ quantity = [p \in Products |-> 0]
  /\ orders = <<>>
  /\ last = CatalogResponse("none", 0, NoResults)
  /\ snap = NoSnap
  /\ reqs = <<>>
  /\ rsel = {}
  /\ rout = NoVariant

NextOption ==
  \/ \E groupId \in OptionGroupInputs, body \in OptionBodies :
        CreateOption(groupId, body)
  \/ \E optionId \in OptionInputs, body \in OptionBodies : UpdateOption(optionId, body)

SpecOption == InitOption /\ [][NextOption]_vars

\* the cases the claim names: a priced type whose value is missing, null, empty
\* or negative
PriceValueMissingOrNegative(body) ==
  /\ body.priceType \in {"BASE", "FIXED", "PERCENTAGE"}
  /\ \/ body.priceValue.kind \in {"undefined", "null", "empty"}
     \/ body.priceValue.kind = "number" /\ body.priceValue.num < 0

\* C22: CreateOption and UpdateOption answer a validation error and create or
\* change no option row whenever priceType is BASE, FIXED or PERCENTAGE and
\* priceValue is missing, null, empty or negative
C22_PricedTypeNeedsValue ==
  [][\A body \in OptionBodies :
        (/\ PriceValueMissingOrNegative(body)
         /\ \/ \E groupId \in OptionGroupInputs : CreateOption(groupId, body)
            \/ \E optionId \in OptionInputs : UpdateOption(optionId, body))
        => (last'.status = 400 /\ groups' = groups)]_vars

----------------------------------------------------------------------------
(* services/hierarchicalStockService.js: the stock tree and the two totals   *)

RECURSIVE SumStock(_)
SumStock(rows) == IF rows = <<>> THEN 0 ELSE Head(rows).stock + SumStock(Tail(rows))

StockNode(id, type, level, stock, children, variantId) ==
  [id |-> id, type |-> type, level |-> level, stock |-> stock, children |-> children,
   variantId |-> variantId]

\* the variants whose option ids are exactly those of the path; one match gives
\* its stock and id, several give the sum of their stock and no id
getStockAndVariantForPath(vs, optionPath) ==
  LET matchingVariants ==
        SelectSeq(vs, LAMBDA v :
          /\ Cardinality(v.options) = Len(optionPath)
          /\ \A i \in 1..Len(optionPath) : optionPath[i] \in v.options)
  IN [stock |-> SumStock(matchingVariants),
      variantId |-> IF Len(matchingVariants) = 1 THEN matchingVariants[1].id ELSE NoVariant]

RECURSIVE buildLevelNodes(_, _, _, _, _)
buildLevelNodes(vs, optionGroups, currentLevel, maxLevel, parentPath) ==
  LET currentLevelGroups == SelectSeq(optionGroups, LAMBDA g : g.level = currentLevel)
      OptionNode(option) ==
        LET currentPath == Append(parentPath, option.id)
            children == IF currentLevel < maxLevel
                        THEN buildLevelNodes(vs, optionGroups, currentLevel + 1, maxLevel,
                                             currentPath)
                        ELSE <<>>
            stockData == getStockAndVariantForPath(vs, currentPath)
        IN StockNode(option.id, "option", currentLevel + 1,
                     IF currentLevel < maxLevel THEN SumStock(children) ELSE stockData.stock,
                     children,
                     IF currentLevel < maxLevel THEN NoVariant ELSE stockData.variantId)
      GroupNode(group) ==
        LET optionNodes == [i \in 1..Len(group.options) |-> OptionNode(group.options[i])]
        IN StockNode(group.id, "option-group", currentLevel, SumStock(optionNodes),
                     optionNodes, NoVariant)
  IN [k \in 1..Len(currentLevelGroups) |-> GroupNode(currentLevelGroups[k])]

buildTreeFromVariants(vs, optionGroups) ==
  LET levels == {optionGroups[k].level : k \in 1..Len(optionGroups)}
      maxLevel == CHOOSE x \in levels : \A y \in levels : y <= x
  IN IF levels = {} THEN <<>>
     ELSE buildLevelNodes(vs, optionGroups, 1, maxLevel, <<>>)

\* buildNode of buildTreeFromOptionGroups
RECURSIVE buildNode(_, _)
buildNode(group, optionGroups) ==
  LET childGroups == SelectSeq(optionGroups, LAMBDA g : g.parentGroupId = group.id)
      childGroupNodes == [k \in 1..Len(childGroups) |-> buildNode(childGroups[k], optionGroups)]
      optionNodes == [i \in 1..Len(group.options) |->
                        StockNode(group.options[i].id, "option", group.level + 1,
                                  group.options[i].stock, <<>>, NoVariant)]
      children == childGroupNodes \o optionNodes
  IN StockNode(group.id, "option-group", group.level, SumStock(children), children,
               NoVariant)

buildTreeFromOptionGroups(optionGroups) ==
  LET rootGroups == SelectSeq(optionGroups, LAMBDA g :
                                g.level = 1 \/ g.parentGroupId = NoParent)
  IN [k \in 1..Len(rootGroups) |-> buildNode(rootGroups[k], optionGroups)]

\* the ids reached from a group by following parentGroupId at most n times
RECURSIVE AncestorIds(_, _, _)
AncestorIds(gs, ids, n) ==
  IF n = 0 THEN {}
  ELSE LET parents == {gs[k].parentGroupId :
                         k \in {j \in 1..Len(gs) : gs[j].id \in ids}} \ {NoParent}
       IN parents \cup AncestorIds(gs, parents, n - 1)

\* buildNode never returns: a root group of the fallback is its own ancestor
RecursesForever(optionGroups) ==
  \E k \in 1..Len(optionGroups) :
     /\ optionGroups[k].level = 1 \/ optionGroups[k].parentGroupId = NoParent
     /\ optionGroups[k].id \in AncestorIds(optionGroups, {optionGroups[k].id},
                                            Len(optionGroups))

calculateHierarchicalTotalStock(tree) ==
  LET rootGroups == SelectSeq(tree, LAMBDA node : node.level = 1)
  IN IF Len(tree) = 0 THEN 0
     ELSE IF Len(rootGroups) > 0 THEN SumStock(rootGroups)
     ELSE SumStock(tree)

\* include: { optionGroups: { include: { options: { orderBy: sortOrder } } } };
\* nothing below depends on the order of the groups
LoadAllOptionGroups(gs) ==
  [k \in 1..Len(gs) |-> [gs[k] EXCEPT !.options = OrderBySortOrder(gs[k].options)]]

\* getHierarchicalStock: the call throws when the recursion overflows the stack
getHierarchicalStock(vs, gs, productId) ==
  LET optionGroups == LoadAllOptionGroups(gs)
      pv == VariantsOf(vs, productId)
      fallback == Len(pv) = 0
      tree == IF fallback THEN buildTreeFromOptionGroups(optionGroups)
              ELSE buildTreeFromVariants(pv, optionGroups)
  IN IF fallback /\ RecursesForever(optionGroups)
     THEN [call |-> "thrown", totalStock |-> 0, tree |-> <<>>]
     ELSE [call |-> "returned", totalStock |-> calculateHierarchicalTotalStock(tree),
           tree |-> tree]

getStockSummary(vs, productId) ==
  [totalVariants |-> Len(VariantsOf(vs, productId)),
   totalStock |-> SumStock(VariantsOf(vs, productId))]

----------------------------------------------------------------------------
(* Stock views: GET hierarchical-stock and GET stock-summary of one product  *)

\* POST /groups/:groupId/options and PUT /options/:optionId with stock in the body
WithOptionStock(gs, stock) ==
  [k \in 1..Len(gs) |->
     [gs[k] EXCEPT !.options = [i \in 1..Len(gs[k].options) |->
                                  [gs[k].options[i] EXCEPT !.stock = stock]]]]

\* the trees of Trees, and the trees the group endpoints store when the level or
\* the parent of a request contradicts the tree: a parentless group at level 2,
\* a child group at level 1, and two groups that are each other's parent
StockTrees(m, n) ==
  Trees(m, n) \cup
  { <<[Level1Group(m) EXCEPT !.level = 2]>>,
    <<Level1Group(m), [Level2Group(n) EXCEPT !.level = 1]>>,
    <<[Level1Group(m) EXCEPT !.parentGroupId = "g2"], Level2Group(n)>> }

HasParentCycle(gs) ==
  \E k \in 1..Len(gs) : gs[k].id \in AncestorIds(gs, {gs[k].id}, Len(gs))

\* PUT /variants/:variantId/stock on the rows of `only`
Restocked(vs, only, stock) ==
  [i \in 1..Len(vs) |-> IF i \in only THEN [vs[i] EXCEPT !.stock = stock] ELSE vs[i]]

\* a row as POST /api/products/:productId/variants inserts it
HandMadeVariant(n, name, stock, optionIds) ==
  [id |-> NewVariantId(n), productId |-> "p1", options |-> optionIds, stock |-> stock,
   isActive |-> TRUE, name |-> name, optionHash |-> NoHash, optionPath |-> NoPath,
   priceAdjustment |-> 0, sortOrder |-> 0]

\* no variants, the generated variants with stock on one or on all of them, and
\* the same with one hand-made variant of a single level-1 option
VariantTables(gs) ==
  LET generated == IF HasParentCycle(gs) THEN <<>>
                   ELSE generateVariantsForProduct(<<>>, gs, "p1").variants
      stocked == {Restocked(generated, only, stock) :
                    only \in {{i} : i \in 1..Len(generated)} \cup {1..Len(generated)},
                    stock \in 1..MaxStock}
  IN {<<>>} \cup stocked \cup
     {Append(vs, HandMadeVariant(Len(vs) + 1, <<"X">>, 1, {1})) : vs \in stocked}

NoStockView == [call |-> "none", totalStock |-> 0, tree |-> <<>>]

InitStock ==
  /\ \E m \in 1..MaxLevel1Options, n \in 0..MaxLevel2Options, stock \in 0..MaxStock :
        \E gs \in StockTrees(m, n) : groups = WithOptionStock(gs, stock)
  /\ options = OptionIdsOf(groups)
  /\ variants \in VariantTables(groups)
  /\ quantity = [p \in Products |-> 0]
  /\ orders = <<>>
  /\ last = CatalogResponse("none", 0, NoResults)
  /\ snap = NoSnap
  /\ reqs = <<>>
  /\ rsel = {}
  /\ rout = NoStockView

\* GET /api/product-options/:productId/hierarchical-stock
GetHierarchicalStock(productId) ==
  /\ rout' = getHierarchicalStock(variants, groups, productId)
  /\ UNCHANGED <<quantity, variants, options, orders, last, snap, reqs, rsel, groups>>

\* GET /api/product-options/:productId/stock-summary
GetStockSummary(productId) ==
  /\ last' = CatalogResponse("summary", 200, getStockSummary(variants, productId))
  /\ UNCHANGED <<quantity, variants, options, orders, snap, reqs, rsel, rout, groups>>

NextStock ==
  \/ \E productId \in Products : GetHierarchicalStock(productId)
  \/ \E productId \in Products : GetStockSummary(productId)

SpecStock == InitStock /\ [][NextStock]_vars

----------------------------------------------------------------------------
(* Properties of the stock views *)

\* every node of the trees below `nodes`, parents before children
RECURSIVE AllNodes(_)
AllNodes(nodes) ==
  Flatten([k \in 1..Len(nodes) |-> <<nodes[k]>> \o AllNodes(nodes[k].children)])

\* for each option node without children: the group it hangs under and the
\* option ids on the way down to it
RECURSIVE LeafKeys(_, _, _)
LeafKeys(nodes, groupId, path) ==
  Flatten([k \in 1..Len(nodes) |->
             IF nodes[k].type = "option-group"
             THEN LeafKeys(nodes[k].children, nodes[k].id, path)
             ELSE IF Len(nodes[k].children) = 0
             THEN << <<groupId>> \o Append(path, nodes[k].id) >>
             ELSE LeafKeys(nodes[k].children, groupId, Append(path, nodes[k].id))])

ParentsAreSums(tree) ==
  LET nodes == AllNodes(tree)
  IN \A k \in 1..Len(nodes) :
        Len(nodes[k].children) > 0 => nodes[k].stock = SumStock(nodes[k].children)

TotalIsLevel1Sum(view) ==
  view.totalStock =
    SumStock(SelectSeq(AllNodes(view.tree),
                       LAMBDA node : node.type = "option-group" /\ node.level = 1))

NoLeafTwice(tree) ==
  LET keys == LeafKeys(tree, NoParent, <<>>)
  IN \A i, j \in 1..Len(keys) : keys[i] = keys[j] => i = j

\* C23: in the tree getHierarchicalStock returns, every node with children has
\* the sum of its children's stock, the product total is the sum over the
\* level-1 group nodes, and no leaf appears twice below the nodes that are summed
C23_AggregateWithoutDoubleCounting ==
  rout.call = "returned" =>
    /\ ParentsAreSums(rout.tree)
    /\ TotalIsLevel1Sum(rout)
    /\ NoLeafTwice(rout.tree)



\* C30: for a product with at least one variant, the total of the stock tree
\* equals the total of the stock summary, the sum of stock over its variants
C30_TotalsAgree ==
  (rout.call = "returned" /\ last.edge = "summary" /\ Len(VariantsOf(variants, "p1")) > 0) =>
    /\ last.results.totalStock = SumStock(VariantsOf(variants, "p1"))
    /\ rout.totalStock = last.results.totalStock


----------------------------------------------------------------------------
(* createOrderWithRetry of POST /api/orders and POST /api/customer-orders,   *)
(* one step per insert attempt                                               *)

\* what generateCustomOrderId can return: two requests may draw the same id
RetryIds == {"SP1", "SP2"}

\* the sources of a creation request
Sources == {"ADMIN", "CUSTOMER"}

CreatorIdle == [pc |-> "idle", source |-> "none", products |-> <<>>, attempt |-> 0,
                tried |-> "none", code |-> "none", status |-> 0]

\* a catch block that retries after every error
shouldRetryAnyError(code, attempt) == code # "ok" /\ attempt < MaxRetries

\* catch (error): error.code === "P2002" && attempt < maxRetries
shouldRetry(code, attempt) == code = "P2002" /\ attempt < MaxRetries

\* the handler up to the call of createOrderWithRetry: the body is validated
CreateBegin(r, source, products) ==
  /\ reqs[r].pc = "idle"
  /\ reqs' = [reqs EXCEPT ![r] =
       IF source = "ADMIN"
          /\ \E i \in 1..Len(products) : ~CreateStockOk(DB(quantity, variants), products[i])
       THEN [CreatorIdle EXCEPT !.source = source, !.products = products, !.status = 400]
       ELSE [CreatorIdle EXCEPT !.pc = "attempt", !.source = source,
                                !.products = products, !.attempt = 1]]
  /\ UNCHANGED <<quantity, variants, options, orders, last, snap, rsel, rout, groups>>

\* one pass of the loop: generateCustomOrderId, then the transaction that inserts
\* the order and its items; `fault` is an error other than the id collision
CreateAttempt(r, id, fault) ==
  /\ reqs[r].pc = "attempt"
  /\ LET code == IF id \in DOMAIN orders THEN "P2002"
                 ELSE IF fault THEN "other" ELSE "ok"
         items == IF reqs[r].source = "ADMIN"
                  THEN CreateItems(variants, reqs[r].products)
                  ELSE CustomerItems(variants, reqs[r].products)
     IN IF code = "ok"
        THEN /\ orders' = InsertOrder(id, [state |-> "PLACED",
                                           orderSource |-> reqs[r].source,
                                           items |-> items])
             /\ reqs' = [reqs EXCEPT ![r] = [CreatorIdle EXCEPT
                           !.attempt = reqs[r].attempt, !.tried = id, !.code = code,
                           !.status = 201]]
        ELSE IF shouldRetry(code, reqs[r].attempt)
        THEN /\ reqs' = [reqs EXCEPT ![r].attempt = @ + 1, ![r].tried = id,
                                     ![r].code = code]
             /\ UNCHANGED orders
        ELSE /\ reqs' = [reqs EXCEPT ![r] = [CreatorIdle EXCEPT
                           !.attempt = reqs[r].attempt, !.tried = id, !.code = code,
                           !.status = 500]]
             /\ UNCHANGED orders
  /\ UNCHANGED <<quantity, variants, options, last, snap, rsel, rout, groups>>

\* the product lists of the creation requests
RetryLists == {<<a>> : a \in {x \in ProductInputs : x.sel = {}}}

InitRetry ==
  /\ quantity = [p \in Products |-> MaxStock]
  /\ variants = Catalog(MaxStock)
  /\ options = AllOptions
  /\ orders = <<>>
  /\ last = Response("create", "none", "PLACED", 201)
  /\ snap = NoSnap
  /\ reqs = [r \in Reqs |-> CreatorIdle]
  /\ rsel = {}
  /\ rout = NoVariant
  /\ groups = NoGroups

NextRetry ==
  \/ \E r \in Reqs, source \in Sources, products \in RetryLists :
        CreateBegin(r, source, products)
  \/ \E r \in Reqs, id \in RetryIds, fault \in BOOLEAN : CreateAttempt(r, id, fault)

SpecRetry == InitRetry /\ [][NextRetry]_vars

\* a step of request r that is an insert attempt
AttemptStep(r) == reqs[r].pc = "attempt" /\ reqs'[r] # reqs[r]

\* C24: a creation makes at most MaxRetries insert attempts; it goes on to a
\* further attempt only after a unique violation on the id it tried; any other
\* error, and a violation on the last attempt, end the request with 500 at
\* once; and only the attempt that answers 201 adds rows, so that a failed
\* creation leaves none
C24_BoundedRetry ==
  [][\A r \in Reqs :
       /\ reqs'[r].attempt <= MaxRetries
       /\ AttemptStep(r) =>
            /\ reqs'[r].pc = "attempt" =>
                 /\ reqs'[r].attempt = reqs[r].attempt + 1
                 /\ reqs'[r].code = "P2002"
                 /\ reqs'[r].tried \in DOMAIN orders
            /\ (reqs'[r].code = "other"
                  \/ (reqs'[r].code = "P2002" /\ reqs[r].attempt = MaxRetries)) =>
                 /\ reqs'[r].pc = "idle"
                 /\ reqs'[r].status = 500
            /\ reqs'[r].status # 201 => orders' = orders
            /\ reqs'[r].status = 201 =>
                 /\ reqs'[r].tried \notin DOMAIN orders
                 /\ DOMAIN orders' = DOMAIN orders \cup {reqs'[r].tried}
                 /\ \A o \in DOMAIN orders : orders'[o] = orders[o]]_vars

\* a request has failed on its third collision while both ids are taken
C24_Witness ==
  \E r \in Reqs : /\ reqs[r].status = 500
                  /\ reqs[r].attempt = MaxRetries
                  /\ reqs[r].code = "P2002"
                  /\ DOMAIN orders = RetryIds

----------------------------------------------------------------------------
(* The ledger of one order: every bucket starts at LedgerStock, the order has  *)
(* just been created, and only requests on that order follow                  *)

LedgerStock == MaxStock

\* the order rows POST /api/orders and POST /api/customer-orders insert
CreatedOrders ==
  {[state |-> state, orderSource |-> "ADMIN",
    items |-> CreateItems(Catalog(LedgerStock), products)] :
      state \in States,
      products \in {l \in ProductLists :
                      \A i \in 1..Len(l) :
                         CreateStockOk(DB([p \in Products |-> LedgerStock],
                                          Catalog(LedgerStock)), l[i])}}
  \cup
  {[state |-> "PLACED", orderSource |-> "CUSTOMER",
    items |-> CustomerItems(Catalog(LedgerStock), products)] : products \in ProductLists}

InitLedger ==
  /\ quantity = [p \in Products |-> LedgerStock]
  /\ variants = Catalog(LedgerStock)
  /\ options = AllOptions
  /\ \E order \in CreatedOrders : orders = [id \in OrderIds |-> order]
  /\ last = Response("create", "none", "PLACED", 201)
  /\ snap = NoSnap
  /\ reqs = <<>>
  /\ rsel = {}
  /\ rout = NoVariant
  /\ groups = NoGroups

\* the bodies of PUT /:id that send the order's products as they are stored
KeptProducts(id) ==
  {products \in ProductLists :
     id \in DOMAIN orders /\ UpdateItems(variants, products) = orders[id].items}

NextLedger ==
  \/ \E id \in OrderIds, state \in States : PutOrderState(id, state)
  \/ \E id \in OrderIds, driverId \in DriverInputs : PutOrderDriver(id, driverId)
  \/ \E id \in OrderIds :
        \E state \in States, driverId \in BodyDrivers, products \in KeptProducts(id) :
           PutOrder(id, state, driverId, products)
  \/ \E id \in OrderIds : DeleteOrder(id)

SpecLedger == InitLedger /\ [][NextLedger]_vars

\* deducted minus restored, per bucket, since the order was created
NetOfVariant(j) == LedgerStock - variants[j].stock
NetOfProduct(p) == LedgerStock - quantity[p]

\* the sums of the quantities of some of the items at the given positions
SomeOf(items, positions) ==
  LET RECURSIVE Total(_)
      Total(S) == IF S = {} THEN 0
                  ELSE LET i == CHOOSE x \in S : TRUE
                       IN items[i].quantity + Total(S \ {i})
  IN {Total(S) : S \in SUBSET positions}

\* C25: while the order exists, what is missing from a bucket is the quantity
\* of some of the order's items that draw on it, each counted once: no item is
\* deducted twice, none is restored without having been deducted; once the
\* order is deleted nothing has been added to any bucket
C25_SingleNetDeduction ==
  IF OrderIds \subseteq DOMAIN orders
  THEN \A id \in OrderIds :
         LET items == orders[id].items IN
         /\ \A j \in 1..Len(variants) :
               NetOfVariant(j) \in
                 SomeOf(items, {i \in 1..Len(items) :
                                  ItemVariantId(variants, items[i]) = variants[j].id})
         /\ \A p \in Products :
               NetOfProduct(p) \in
                 SomeOf(items, {i \in 1..Len(items) :
                                  /\ ItemVariantId(variants, items[i]) = NoVariant
                                  /\ items[i].productId = p})
  ELSE /\ \A j \in 1..Len(variants) : NetOfVariant(j) \in 0..MaxQty
       /\ \A p \in Products : NetOfProduct(p) \in 0..MaxQty

\* what is missing from every bucket is what the items draw from it in total
HoldsDeduction(items) ==
  /\ \A j \in 1..Len(variants) :
        NetOfVariant(j) = VariantDemand(variants, items, variants[j].id, 1)
  /\ \A p \in Products : NetOfProduct(p) = ProductDemand(variants, items, p, 1)

HoldsNoDeduction ==
  /\ \A j \in 1..Len(variants) : NetOfVariant(j) = 0
  /\ \A p \in Products : NetOfProduct(p) = 0

\* C26: an order in state DELIVERING has had the quantity of each of its items
\* taken from the item's bucket, also when the creation request stored that
\* state; a PLACED order that no request has touched since its creation holds
\* no deduction
C26_StateAndStockAgree ==
  \A id \in DOMAIN orders :
     /\ orders[id].state = "DELIVERING" => HoldsDeduction(orders[id].items)
     /\ (orders[id].state = "PLACED" /\ last.edge = "create") => HoldsNoDeduction

\* C27: whenever validateStockForOrder accepts an order, deductStockForOrder
\* run on the same rows succeeds for every item and leaves no bucket below 0,
\* also when several items draw on one bucket
C27_ValidationSufficesForDeduction ==
  \A id \in DOMAIN orders :
     LET db == DB(quantity, variants)
         r == deductStockForOrder(db, orders[id].items)
     IN validateStockForOrder(db, orders[id].items) =>
          /\ r.ok
          /\ \A p \in DOMAIN r.quantity : r.quantity[p] >= 0
          /\ \A j \in 1..Len(r.variants) : r.variants[j].stock >= 0

----------------------------------------------------------------------------
(* Two requests that write DELIVERING to one PLACED order, step by step       *)

InitRace ==
  /\ quantity = [p \in Products |-> LedgerStock]
  /\ variants = Catalog(LedgerStock)
  /\ options = AllOptions
  /\ \E order \in {o \in CreatedOrders : o.state = "PLACED"} :
        orders = [id \in OrderIds |-> order]
  /\ last = Response("create", "none", "PLACED", 201)
  /\ snap = NoSnap
  /\ reqs = [r \in Reqs |-> ReqIdle]
  /\ rsel = {}
  /\ rout = NoVariant
  /\ groups = NoGroups

NextRace ==
  \/ \E r \in Reqs, id \in OrderIds : StateFind(r, id, "DELIVERING")
  \/ \E r \in Reqs : StateUpdate(r)
  \/ \E r \in Reqs : OrderLoad(r)
  \/ \E r \in Reqs : BucketRead(r)
  \/ \E r \in Reqs : BucketWrite(r)

SpecRace == InitRace /\ [][NextRace]_vars

\* C28: however two requests that write DELIVERING to a PLACED order are
\* interleaved, no bucket ever misses more than the order's items draw from it,
\* and when both have ended on an order whose items the stock covered, every
\* bucket misses exactly that
C28_ConcurrentDeliveringDeductsOnce ==
  \A id \in DOMAIN orders :
     LET items == orders[id].items IN
     /\ \A j \in 1..Len(variants) :
           NetOfVariant(j) <= VariantDemand(variants, items, variants[j].id, 1)
     /\ \A p \in Products : NetOfProduct(p) <= ProductDemand(variants, items, p, 1)
     /\ (/\ \A r \in Reqs : reqs[r].pc = "idle"
         /\ orders[id].state = "DELIVERING"
         /\ Sufficient(DB([p \in Products |-> LedgerStock], Catalog(LedgerStock)), items))
        => HoldsDeduction(items)

----------------------------------------------------------------------------
(* Properties of the return path *)

\* C29: when an order whose deduction was covered by the stock enters RETURNED,
\* also after PUT /:id wrote the order in between, every bucket is back at the
\* value it had before the deduction: what was debited is credited, to the
\* same bucket
C29_SameBucketOnTheWayBack ==
  [][(/\ snap.phase \in {"out", "again"}
      /\ snap.sufficient
      /\ snap.id \in DOMAIN orders
      /\ snap.id \in DOMAIN orders'
      /\ orders[snap.id].state = "DELIVERING"
      /\ orders'[snap.id].state = "RETURNED")
     => (quantity' = snap.quantity /\ variants' = snap.variants)]_vars

====
